---- MODULE Spec2Model ----
(***************************************************************************)
(* A model of the capture session of video-capture-dx11: VideoCapture     *)
(* (open / read / get / set / release) driving VideoDemuxer and           *)
(* VideoDecoder, with the process-wide HardwareDecoder capability cache.  *)
(* The container engine and the decode engine (FFmpeg) are the            *)
(* environment; they are modelled by what their documented interface      *)
(* returns.                                                                *)
(***************************************************************************)
EXTENDS Integers, Sequences, FiniteSets, TLC

VARIABLES
    s_initialized,        \* VideoCapture::s_initialized
    s_d3dDevice,          \* VideoCapture::s_d3dDevice ("null" or a device)
    devRefs,              \* references VideoCapture holds on the device
    hw_initialized,       \* HardwareDecoder::s_initialized
    s_availableDecoders,  \* HardwareDecoder::s_availableDecoders
    platform,             \* codecs whose decoders report D3D11VA on this machine
    media,                \* the content of the file / stream being played
    source,               \* the streaming buffer: packets appended, EOF mark
    m_demuxer,            \* VideoCapture::m_demuxer
    m_decoder,            \* VideoCapture::m_decoder
    m_currentFrame,       \* VideoCapture::m_currentFrame
    m_opened,             \* VideoCapture::m_opened
    m_eof,                \* VideoCapture::m_eof
    m_frameCount,         \* VideoCapture::m_frameCount
    last,                 \* the last call made on the library and its outcome
    delivered,            \* textures handed out by read() since the last (re)positioning
    origin,               \* frame index the demuxer was last positioned at
    released,             \* release() has run and no open() has succeeded since
    impl,                 \* which IDataSource implementation is driven on its own
    bds,                  \* BufferDataSource: m_buffer, m_position, m_seekable, m_eof
    m_mutex,              \* BufferDataSource::m_mutex: "free" or the thread holding it
    running,              \* per thread: the BufferDataSource call it is inside, or Idle
    file,                 \* FileDataSource: m_file, m_size, and the FILE behind it
    result,               \* the last data-source call completed and what it returned
    supplied,             \* bytes handed to SetData / AppendData so far (byte k is k)
    received,             \* bytes the reading thread has collected from Read
    webrtc                \* WebRTCDataSource: m_connected, m_initialized, and the
                          \* state of the peer connection behind it

vars == <<s_initialized, s_d3dDevice, devRefs, hw_initialized, s_availableDecoders,
          platform, media, source, m_demuxer, m_decoder, m_currentFrame,
          m_opened, m_eof, m_frameCount, last, delivered, origin, released,
          impl, bds, m_mutex, running, file, result, supplied, received, webrtc>>

procVars == <<s_initialized, s_d3dDevice, devRefs>>
hwVars == <<hw_initialized, s_availableDecoders>>
sessionVars == <<m_demuxer, m_decoder, m_currentFrame, m_opened, m_eof, m_frameCount>>
srcVars == <<impl, bds, m_mutex, running, file, result, supplied, received, webrtc>>
captureVars == <<procVars, hwVars, platform, media, source, sessionVars, last,
                 delivered, origin, released>>

----------------------------------------------------------------------------
(* Bounds of the model *)

\* frames of the longest ordinary media
MaxFrames == 3
\* deepest ordinary decoder buffering (packets held before the first frame)
MaxDelay == 2
\* bytes handed to a buffer source, and the length of the longest file
MaxBytes == 3
\* largest chunk appended and largest size asked of Read in one call
MaxChunk == 2

(* Program constants *)

\* const int MAX_ATTEMPTS = 100
MAX_ATTEMPTS == 100
\* AVERROR_EOF = FFERRTAG(0xF8,'E','O','F')
AVERROR_EOF == -541478725
\* errno values of the platform's C runtime
EAGAIN == 11
EINVAL == 22
ENOSYS == 40
EIO == 5
\* AVERROR(e) on a platform with positive errno values
AVERROR(e) == -e
\* whence values of Seek
SEEK_SET == 0
SEEK_CUR == 1
SEEK_END == 2
AVSEEK_SIZE == 65536
\* AV_TIME_BASE, the unit of AVFormatContext::duration
AV_TIME_BASE == 1000000

\* an empty std::unique_ptr
NullPtr == [null |-> TRUE]
\* ID3D11Device*: nullptr, or the application's render device
NullDevice == "nullptr"
Device == "device"
OtherDevice == "device2"

----------------------------------------------------------------------------
(* Doubles are kept as exact fractions [n, d] in lowest terms, d > 0. *)

RECURSIVE Gcd(_, _)
Gcd(a, b) == IF b = 0 THEN a ELSE Gcd(b, a % b)

Frac(n, d) ==
    LET Reduced(g) == [n |-> n \div g, d |-> d \div g]
    IN Reduced(Gcd(IF n < 0 THEN -n ELSE n, d))
Zero == Frac(0, 1)
FracMul(a, b) == Frac(a.n * b.n, a.d * b.d)
FracDiv(a, b) == Frac(a.n * b.d, a.d * b.n)
FracLess(a, b) == a.n * b.d < b.n * a.d
FracEq(a, b) == a.n * b.d = b.n * a.d
\* static_cast<int64_t>(x) of a non-negative double
Trunc(a) == a.n \div a.d

----------------------------------------------------------------------------
(* Media: what the container engine finds in the file or stream. *)

\* AVCodecID values; MPEG4 stands for every codec outside the allow-list
Codecs == {"H264", "HEVC", "AV1", "MPEG4"}
AllowedCodecs == {"H264", "HEVC", "AV1"}

\* lead: video packets that decode to no picture (parameter sets, frames
\*       dropped before the first keyframe); frames: packets that decode to
\*       one picture each; gop: keyframe spacing; aud: packets of another
\*       stream in front of every video packet; delay: decoder buffering
\*       depth; fault: one video packet the decode engine rejects.
MediaOf(lead, frames, gop, aud, delay, faultAt, faultKind, codec, dur, avg, seekable) ==
    [lead |-> lead, frames |-> frames, gop |-> gop, aud |-> aud, delay |-> delay,
     faultAt |-> faultAt, faultKind |-> faultKind, codec |-> codec,
     duration |-> dur, avgFps |-> avg, rFps |-> 0,
     tb |-> [num |-> 1, den |-> 50], ptsStep |-> 2, seekable |-> seekable]

Plain(frames, delay, aud) ==
    MediaOf(0, frames, 2, aud, delay, 0, "none", "H264", frames * 40000, 25, TRUE)

Media ==
    \* ordinary clips
    { Plain(f, d, a) : f \in 0..MaxFrames, d \in 0..MaxDelay, a \in 0..1 }
    \* a decoder that buffers more packets than the pump loop submits
    \cup { MediaOf(0, MAX_ATTEMPTS + f, 2, 0, MAX_ATTEMPTS + d, 0, "none", "H264", 0, 25, FALSE) :
             f \in 0..1, d \in 0..1 }
    \* leading packets without a picture, up to the retry ceiling
    \cup { MediaOf(l, f, 2, 0, 0, 0, "none", "HEVC", 1000000, 0, TRUE) :
             l \in {1, MAX_ATTEMPTS - 1, MAX_ATTEMPTS}, f \in 1..2 }
    \* packets without a picture and nothing after them: the source ends in
    \* the loop's last iteration
    \cup { MediaOf(MAX_ATTEMPTS - 1, 0, 2, 0, 0, 0, "none", "HEVC", 1000000, 0, TRUE) }
    \* a packet the decode engine rejects on submission or on reception
    \cup { MediaOf(0, MaxFrames, 2, 0, d, at, k, "AV1", 120000, 25, TRUE) :
             d \in 0..1, at \in {1, MaxFrames}, k \in {"senderr", "recverr"} }
    \* a clip whose only keyframe is its first frame
    \cup { MediaOf(0, MaxFrames, MaxFrames, 0, 0, 0, "none", "H264", MaxFrames * 40000, 25,
                   TRUE) }
    \* an unseekable clip, and a codec outside the allow-list
    \cup { MediaOf(0, 2, 1, 0, 1, 0, "none", "H264", 70000, 25, FALSE),
           MediaOf(0, 2, 1, 0, 0, 0, "none", "MPEG4", 80000, 25, TRUE) }

NumVideo(m) == m.lead + m.frames
Group(m) == m.aud + 1
RawLen(m) == NumVideo(m) * Group(m)

\* the i-th video packet (1-based) of the media
VideoPacket(m, i) ==
    LET j == i - m.lead - 1 IN
    [ stream |-> 0,
      kind |-> IF i = m.faultAt THEN m.faultKind
               ELSE IF i <= m.lead THEN "skip" ELSE "frame",
      pts |-> IF i <= m.lead THEN -1 ELSE j * m.ptsStep,
      key |-> (i > m.lead) /\ (j % m.gop = 0) ]

\* the r-th packet (1-based) of the container, in file order
PacketAt(m, r) ==
    IF r % Group(m) = 0 THEN VideoPacket(m, r \div Group(m))
    ELSE [stream |-> 1, kind |-> "other", pts |-> -1, key |-> FALSE]

NullPacket == [stream |-> -1, kind |-> "null", pts |-> -1, key |-> FALSE]

----------------------------------------------------------------------------
(* The decode engine behind VideoDecoder (avcodec_send_packet /           *)
(* avcodec_receive_frame / avcodec_flush_buffers).                        *)

\* a picture is ready once more than `delay` packets are buffered, or, when
\* draining, as long as any is buffered
FrameReady(dec) ==
    dec.queue # <<>> /\ (Len(dec.queue) > dec.delay \/ dec.draining)

avcodec_send_packet(dec, pkt) ==
    IF dec.draining THEN [ret |-> "EOF", dec |-> dec]
    ELSE IF pkt = NullPacket THEN [ret |-> "OK", dec |-> [dec EXCEPT !.draining = TRUE]]
    \* input is not accepted while a picture waits to be received
    ELSE IF FrameReady(dec) THEN [ret |-> "EAGAIN", dec |-> dec]
    ELSE IF pkt.kind = "senderr" THEN [ret |-> "EINVAL", dec |-> dec]
    ELSE IF pkt.kind = "skip" THEN [ret |-> "OK", dec |-> dec]
    ELSE [ret |-> "OK", dec |-> [dec EXCEPT !.queue = Append(@, pkt)]]

avcodec_receive_frame(dec) ==
    IF FrameReady(dec)
    THEN [ret |-> IF Head(dec.queue).kind = "recverr" THEN "EINVAL" ELSE "OK",
          pic |-> Head(dec.queue),
          dec |-> [dec EXCEPT !.queue = Tail(@)]]
    ELSE [ret |-> IF dec.draining THEN "EOF" ELSE "EAGAIN",
          pic |-> NullPacket, dec |-> dec]

avcodec_flush_buffers(dec) ==
    [dec EXCEPT !.queue = <<>>, !.draining = FALSE]

----------------------------------------------------------------------------
(* VideoDecoder *)

\* DecodedFrame()
NewDecodedFrame ==
    [valid |-> FALSE, presentationTime |-> Zero, keyframe |-> FALSE, texture |-> -1]

\* VideoDecoder() followed by a successful Initialize
NewDecoder(m, info) ==
    [m_initialized |-> TRUE, m_codecContext |-> TRUE, m_decoderInfo |-> info,
     m_streamTimebase |-> m.tb, queue |-> <<>>, draining |-> FALSE, delay |-> m.delay]

\* VideoDecoder() whose Initialize failed (Cleanup has run)
FailedDecoder(m) ==
    [m_initialized |-> FALSE, m_codecContext |-> FALSE, m_decoderInfo |-> [type |-> "NONE", available |-> FALSE],
     m_streamTimebase |-> [num |-> 0, den |-> 1], queue |-> <<>>, draining |-> FALSE, delay |-> m.delay]

\* the time base of the decode context, used when the stream's is degenerate
CodecTimeBase == [num |-> 1, den |-> 25]

SendPacket(dec, pkt) ==
    LET Sent(r) ==
            IF r.ret # "OK"
            THEN [ok |-> (r.ret = "EOF"), dec |-> r.dec, called |-> 1, engine |-> r.ret]
            ELSE [ok |-> TRUE, dec |-> r.dec, called |-> 1, engine |-> r.ret]
    IN IF ~dec.m_initialized \/ ~dec.m_codecContext
       THEN [ok |-> FALSE, dec |-> dec, called |-> 0, engine |-> "none"]
       ELSE Sent(avcodec_send_packet(dec, pkt))

\* ProcessHardwareFrame: fails on a picture that is not a D3D11 hardware frame
ProcessHardwareFrame(pic) == pic.kind # "swframe"


\* the time base presentation times are computed with
FrameTimeBase(dec) ==
    IF dec.m_streamTimebase.den # 0 THEN dec.m_streamTimebase ELSE CodecTimeBase

\* variant: the caller's frame keeps its valid flag when nothing is received
ReceiveFrameKeepsValid(dec, frame) ==
    LET Received(r, tb) ==
            IF r.ret # "OK"
            THEN [ok |-> (r.ret \in {"EAGAIN", "EOF"}), dec |-> r.dec,
                  frame |-> frame, called |-> 1, engine |-> r.ret]
            ELSE IF ~ProcessHardwareFrame(r.pic)
            THEN [ok |-> FALSE, dec |-> r.dec,
                  frame |-> frame, called |-> 1, engine |-> "extract"]
            ELSE [ok |-> TRUE, dec |-> r.dec, called |-> 1, engine |-> r.ret,
                  frame |-> [valid |-> TRUE,
                             presentationTime |-> Frac(r.pic.pts * tb.num, tb.den),
                             keyframe |-> r.pic.key,
                             texture |-> r.pic.pts]]
    IN IF ~dec.m_initialized \/ ~dec.m_codecContext
       THEN [ok |-> FALSE, dec |-> dec, frame |-> frame, called |-> 0, engine |-> "none"]
       ELSE Received(avcodec_receive_frame(dec), FrameTimeBase(dec))

\* engine is the answer of avcodec_receive_frame, or "extract" when the
\* picture it gave could not be turned into a texture
ReceiveFrame(dec, frame) ==
    LET Received(r, tb) ==
            IF r.ret # "OK"
            THEN [ok |-> (r.ret \in {"EAGAIN", "EOF"}), dec |-> r.dec,
                  frame |-> [frame EXCEPT !.valid = FALSE], called |-> 1, engine |-> r.ret]
            ELSE IF ~ProcessHardwareFrame(r.pic)
            THEN [ok |-> FALSE, dec |-> r.dec,
                  frame |-> [frame EXCEPT !.valid = FALSE], called |-> 1, engine |-> "extract"]
            ELSE [ok |-> TRUE, dec |-> r.dec, called |-> 1, engine |-> r.ret,
                  frame |-> [valid |-> TRUE,
                             presentationTime |-> Frac(r.pic.pts * tb.num, tb.den),
                             keyframe |-> r.pic.key,
                             texture |-> r.pic.pts]]
    IN IF ~dec.m_initialized \/ ~dec.m_codecContext
       THEN [ok |-> FALSE, dec |-> dec, frame |-> frame, called |-> 0, engine |-> "none"]
       ELSE Received(avcodec_receive_frame(dec), FrameTimeBase(dec))

\* variant: a Flush that drops the buffered pictures only
FlushLeavesDraining(dec) ==
    IF dec.m_codecContext THEN [dec EXCEPT !.queue = <<>>] ELSE dec

\* VideoDecoder::Flush
Flush(dec) ==
    IF dec.m_codecContext THEN avcodec_flush_buffers(dec) ELSE dec

----------------------------------------------------------------------------
(* VideoDemuxer *)

\* VideoDemuxer(), and the demuxer after Close()
\* heap counts, per kind, the native objects allocated for the demuxer and
\* not freed: the parse context, the IO staging buffer, the IO bridge context
NoHeap == [format |-> 0, buffer |-> 0, avio |-> 0]

ClosedDemuxer ==
    [m_formatContext |-> FALSE, m_ioContext |-> FALSE, m_ioBuffer |-> FALSE,
     m_videoStreamIndex |-> -1, m_videoStream |-> FALSE,
     via |-> "none", pos |-> 0, heap |-> NoHeap]

OpenDemuxer(via) ==
    [m_formatContext |-> TRUE, m_ioContext |-> (via = "stream"),
     m_ioBuffer |-> (via = "stream"),
     m_videoStreamIndex |-> 0, m_videoStream |-> TRUE,
     via |-> via, pos |-> 0,
     heap |-> IF via = "stream" THEN [format |-> 1, buffer |-> 1, avio |-> 1]
              ELSE [format |-> 1, buffer |-> 0, avio |-> 0]]

\* how much of the container the engine can read now, and whether that is all
Limit(dmx) == IF dmx.via = "stream" THEN source.avail ELSE RawLen(media)
Ended(dmx) == IF dmx.via = "stream" THEN source.eof ELSE TRUE

av_read_frame(dmx) ==
    IF dmx.pos < Limit(dmx)
    THEN [ret |-> "OK", packet |-> PacketAt(media, dmx.pos + 1),
          dmx |-> [dmx EXCEPT !.pos = @ + 1]]
    ELSE [ret |-> IF Ended(dmx) THEN "EOF" ELSE "EAGAIN", packet |-> NullPacket,
          dmx |-> dmx]

\* variant: the first packet pulled is returned, whatever its stream
ReadLoopUnfiltered(dmx) ==
    LET Got(r) ==
            IF r.ret # "OK"
            THEN [ok |-> FALSE, ret |-> r.ret, packet |-> NullPacket, dmx |-> r.dmx,
                  freed |-> 0]
            ELSE [ok |-> TRUE, ret |-> "OK", packet |-> r.packet, dmx |-> r.dmx,
                  freed |-> 0]
    IN Got(av_read_frame(dmx))

\* the while (true) of ReadFrame; freed counts the av_packet_unref calls
RECURSIVE ReadLoop(_)
ReadLoop(dmx) ==
    LET Skipped(rest) == [rest EXCEPT !.freed = @ + 1]
        Got(r) ==
            IF r.ret # "OK"
            THEN [ok |-> FALSE, ret |-> r.ret, packet |-> NullPacket, dmx |-> r.dmx,
                  freed |-> 0]
            ELSE IF r.packet.stream = dmx.m_videoStreamIndex
                 THEN [ok |-> TRUE, ret |-> "OK", packet |-> r.packet, dmx |-> r.dmx,
                       freed |-> 0]
                 ELSE Skipped(ReadLoop(r.dmx))
    IN Got(av_read_frame(dmx))

ReadFrame(dmx) ==
    IF ~dmx.m_formatContext \/ dmx.m_videoStreamIndex < 0
    THEN [ok |-> FALSE, ret |-> "closed", packet |-> NullPacket, dmx |-> dmx, freed |-> 0]
    ELSE ReadLoop(dmx)

GetDuration(dmx) ==
    IF ~dmx.m_formatContext THEN Zero ELSE Frac(media.duration, AV_TIME_BASE)

GetFrameRate(dmx) ==
    IF ~dmx.m_videoStream THEN Zero
    ELSE IF media.avgFps # 0 THEN Frac(media.avgFps, 1)
    ELSE IF media.rFps # 0 THEN Frac(media.rFps, 1)
    ELSE Frac(25, 1)

\* every media of the model is 16 x 8 pixels
GetWidth(dmx) == IF ~dmx.m_videoStream THEN 0 ELSE 16
GetHeight(dmx) == IF ~dmx.m_videoStream THEN 0 ELSE 8

GetCodecID(dmx) == IF ~dmx.m_videoStream THEN "NONE" ELSE media.codec
GetTimeBase(dmx) == IF ~dmx.m_videoStream THEN [num |-> 0, den |-> 1] ELSE media.tb

SecondsToPacketTime(dmx, seconds) ==
    IF ~dmx.m_videoStream THEN 0
    ELSE Trunc(FracDiv(seconds, Frac(media.tb.num, media.tb.den)))

\* av_seek_frame(..., AVSEEK_FLAG_BACKWARD): the container position of the
\* last keyframe at or before the timestamp
av_seek_frame(dmx, timestamp) ==
    LET idx == IF timestamp \div media.ptsStep < media.frames
               THEN timestamp \div media.ptsStep ELSE media.frames - 1
        keyIdx == idx - (idx % media.gop)
        target == (media.lead + keyIdx) * Group(media)
    IN IF ~media.seekable \/ media.frames = 0 \/ timestamp < 0 \/ target > Limit(dmx)
       THEN [ret |-> -1, dmx |-> dmx]
       ELSE [ret |-> 0, dmx |-> [dmx EXCEPT !.pos = target]]

SeekToTime(dmx, seconds) ==
    LET Sought(r) == [ok |-> (r.ret >= 0), dmx |-> r.dmx] IN
    IF ~dmx.m_formatContext \/ ~dmx.m_videoStream THEN [ok |-> FALSE, dmx |-> dmx]
    ELSE Sought(av_seek_frame(dmx, SecondsToPacketTime(dmx, seconds)))

SeekToFrame(dmx, frameNumber) ==
    IF ~dmx.m_formatContext \/ ~dmx.m_videoStream THEN [ok |-> FALSE, dmx |-> dmx]
    ELSE SeekToTime(dmx, FracDiv(Frac(frameNumber, 1), GetFrameRate(dmx)))

----------------------------------------------------------------------------
(* HardwareDecoder: the process-wide capability cache *)

NoneDecoder == [type |-> "NONE", available |-> FALSE]

\* TestD3D11VAAvailability: the device context can be created and at least
\* one of the H.264 / H.265 / AV1 decoders reports D3D11VA
TestD3D11VAAvailability(d3dDevice) ==
    d3dDevice # NullDevice /\ platform # {}

DetectHardwareDecoders(d3dDevice) ==
    IF d3dDevice # NullDevice
    THEN << [type |-> "D3D11VA", available |-> TestD3D11VAAvailability(d3dDevice)] >>
    ELSE << >>

SupportsCodec(decoder, codecId) ==
    IF decoder.type = "D3D11VA" THEN codecId \in {"H264", "HEVC", "AV1"} ELSE FALSE

\* variant: the loop does not look at the record's available flag
QualifyingUnavailableToo(codecId) ==
    { i \in 1..Len(s_availableDecoders) :
        /\ s_availableDecoders[i].type = "D3D11VA"
        /\ SupportsCodec(s_availableDecoders[i], codecId) }

\* the records of the cache GetBestDecoder's loop accepts
Qualifying(codecId) ==
    { i \in 1..Len(s_availableDecoders) :
        /\ s_availableDecoders[i].available
        /\ s_availableDecoders[i].type = "D3D11VA"
        /\ SupportsCodec(s_availableDecoders[i], codecId) }

GetBestDecoder(codecId) ==
    IF ~hw_initialized THEN NoneDecoder
    ELSE IF Qualifying(codecId) # {}
         THEN s_availableDecoders[CHOOSE i \in Qualifying(codecId) :
                                    \A k \in Qualifying(codecId) : i <= k]
         ELSE NoneDecoder

\* variant: every Initialize probes, initialized or not
HwInitializeResultReprobes(d3dDevice) ==
    <<TRUE, DetectHardwareDecoders(d3dDevice)>>

\* HardwareDecoder::Initialize: what it leaves in (s_initialized, s_availableDecoders)
HwInitializeResult(d3dDevice) ==
    IF hw_initialized THEN <<hw_initialized, s_availableDecoders>>
    ELSE <<TRUE, DetectHardwareDecoders(d3dDevice)>>

----------------------------------------------------------------------------
(* VideoCapture: the session *)

CAP_PROP_POS_MSEC == 0
CAP_PROP_POS_FRAMES == 1
CAP_PROP_POS_AVI_RATIO == 2
CAP_PROP_FRAME_WIDTH == 3
CAP_PROP_FRAME_HEIGHT == 4
CAP_PROP_FPS == 5
CAP_PROP_FOURCC == 6
CAP_PROP_FRAME_COUNT == 7

\* the members of a session as one record
Session(dmx, dec, frame, opened, eof, count) ==
    [m_demuxer |-> dmx, m_decoder |-> dec, m_currentFrame |-> frame,
     m_opened |-> opened, m_eof |-> eof, m_frameCount |-> count]

Current == Session(m_demuxer, m_decoder, m_currentFrame, m_opened, m_eof, m_frameCount)

\* VideoCapture(): the members after construction
Constructed == Session(NullPtr, NullPtr, NullPtr, FALSE, FALSE, 0)

\* bool VideoCapture::isOpened() const
isOpened(s) == s.m_opened

\* variant: a release() that leaves the EOF flag as it was
ReleasedKeepsEof(s) == Session(NullPtr, NullPtr, NullPtr, FALSE, s.m_eof, 0)

\* variant: a release() that forgets to clear m_opened
ReleasedKeepsOpened(s) == Session(NullPtr, NullPtr, NullPtr, s.m_opened, FALSE, 0)

\* release(): the members it leaves
Released(s) == Session(NullPtr, NullPtr, NullPtr, FALSE, FALSE, 0)

\* variant: a release() that destroys the demuxer before the decoder
ReleaseOrderDemuxerFirst(s) ==
    SelectSeq(<< <<"frame", s.m_currentFrame>>, <<"demuxer", s.m_demuxer>>,
                 <<"decoder", s.m_decoder>> >>,
              LAMBDA e : e[2] # NullPtr)

\* release(): the objects it destroys, in the order of the three reset() calls
ReleaseOrder(s) ==
    SelectSeq(<< <<"frame", s.m_currentFrame>>, <<"decoder", s.m_decoder>>,
                 <<"demuxer", s.m_demuxer>> >>,
              LAMBDA e : e[2] # NullPtr)

Freed(s) == [i \in 1..Len(ReleaseOrder(s)) |-> ReleaseOrder(s)[i][1]]

\* the backend record InitializeDecoder accepts
SessionAccepts(decoderInfo) ==
    ~(decoderInfo.type # "NVDEC" \/ ~decoderInfo.available)

\* the backend record VideoDecoder::Initialize accepts
DecoderAccepts(decoderInfo) ==
    ~(decoderInfo.type # "D3D11VA" \/ ~decoderInfo.available)

\* VideoDecoder::Initialize; engineOk: InitializeHardwareDecoder succeeds
DecoderInitialize(decoderInfo, d3dDevice, engineOk) ==
    IF d3dDevice = NullDevice THEN FailedDecoder(media)
    ELSE IF ~DecoderAccepts(decoderInfo) THEN FailedDecoder(media)
    ELSE IF ~engineOk THEN FailedDecoder(media)
    ELSE NewDecoder(media, decoderInfo)

\* InitializeDecoder on a session whose demuxer is open
InitializeDecoder(s, engineOk) ==
    LET Created(dec) ==
            IF ~dec.m_initialized
            THEN [ok |-> FALSE, s |-> [s EXCEPT !.m_decoder = dec]]
            ELSE [ok |-> TRUE,
                  s |-> [s EXCEPT !.m_decoder = dec, !.m_currentFrame = NewDecodedFrame]]
        Chosen(decoderInfo) ==
            IF ~SessionAccepts(decoderInfo) THEN [ok |-> FALSE, s |-> s]
            ELSE Created(DecoderInitialize(decoderInfo, s_d3dDevice, engineOk))
    IN Chosen(GetBestDecoder(GetCodecID(s.m_demuxer)))

\* variant: a frame count rounded up instead of down
FrameCountOfRoundedUp(dmx) ==
    LET Count(duration, frameRate) ==
            IF FracLess(Zero, duration) /\ FracLess(Zero, frameRate)
            THEN Trunc(FracMul(duration, frameRate))
                 + (IF FracMul(duration, frameRate).d = 1 THEN 0 ELSE 1)
            ELSE 0
    IN Count(GetDuration(dmx), GetFrameRate(dmx))

\* duration * frameRate, truncated; 0 unless both are positive
FrameCountOf(dmx) ==
    LET Count(duration, frameRate) ==
            IF FracLess(Zero, duration) /\ FracLess(Zero, frameRate)
            THEN Trunc(FracMul(duration, frameRate)) ELSE 0
    IN Count(GetDuration(dmx), GetFrameRate(dmx))

\* variant: the first video stream is taken whatever its codec
FindVideoStreamAnyCodec(dmx, probe) ==
    IF ~dmx.m_formatContext THEN [ok |-> FALSE, dmx |-> dmx]
    ELSE IF probe = "novideo" THEN [ok |-> FALSE, dmx |-> dmx]
    ELSE [ok |-> TRUE,
          dmx |-> [dmx EXCEPT !.m_videoStreamIndex = 0, !.m_videoStream = TRUE]]

\* VideoDemuxer::FindVideoStream; the first video stream of every media that
\* has one is stream 0
FindVideoStream(dmx, probe) ==
    IF ~dmx.m_formatContext THEN [ok |-> FALSE, dmx |-> dmx]
    ELSE IF probe = "novideo" THEN [ok |-> FALSE, dmx |-> dmx]
    ELSE [ok |-> media.codec \in {"H264", "HEVC", "AV1"},
          dmx |-> [dmx EXCEPT !.m_videoStreamIndex = 0, !.m_videoStream = TRUE]]

\* a step of Open or Reset: the demuxer it leaves and the native objects
\* freed so far, in order
Step(dmx, freed) == [dmx |-> dmx, freed |-> freed]

\* av_malloc / avio_alloc_context / avformat_alloc_context / a successful
\* avformat_open_input(path): one more live object of the kind
Allocated(dmx, kind) == [dmx EXCEPT !.heap[kind] = @ + 1]

\* avformat_close_input / av_freep / av_free / avio_context_free; live tells
\* whether an object of the kind was there to be freed
Free(st, kind) ==
    Step([st.dmx EXCEPT !.heap[kind] = @ - 1],
         Append(st.freed, [kind |-> kind, live |-> st.dmx.heap[kind] > 0]))

\* variant: a Reset that leaves the staging buffer to avio_context_free
ResetWithoutBufferFree(st) ==
    LET Cleared(s) ==
            Step([s.dmx EXCEPT !.m_ioBuffer = FALSE, !.m_videoStreamIndex = -1,
                               !.m_videoStream = FALSE, !.via = "none", !.pos = 0],
                 s.freed)
        Unbridged(s) ==
            IF s.dmx.m_ioContext
            THEN Cleared(Step([Free(s, "avio").dmx EXCEPT !.m_ioContext = FALSE],
                              Free(s, "avio").freed))
            ELSE Cleared(s)
    IN IF st.dmx.m_formatContext
       THEN Unbridged(Step([Free(st, "format").dmx EXCEPT !.m_formatContext = FALSE],
                           Free(st, "format").freed))
       ELSE Unbridged(st)

\* VideoDemuxer::Reset: avformat_close_input does not free the IO context of
\* a context opened with custom IO, nor its buffer
Reset(st) ==
    LET Cleared(s) ==
            Step([s.dmx EXCEPT !.m_ioBuffer = FALSE, !.m_videoStreamIndex = -1,
                               !.m_videoStream = FALSE, !.via = "none", !.pos = 0],
                 s.freed)
        Bridge(s) ==
            Cleared(Step([Free(s, "avio").dmx EXCEPT !.m_ioContext = FALSE],
                         Free(s, "avio").freed))
        Unbridged(s) ==
            IF s.dmx.m_ioContext
            THEN IF s.dmx.m_ioBuffer THEN Bridge(Free(s, "buffer")) ELSE Bridge(s)
            ELSE Cleared(s)
    IN IF st.dmx.m_formatContext
       THEN Unbridged(Step([Free(st, "format").dmx EXCEPT !.m_formatContext = FALSE],
                           Free(st, "format").freed))
       ELSE Unbridged(st)

\* VideoDemuxer::SetupCustomIO; probe names the allocation or the call that
\* fails ("nobuffer": av_malloc, "noio": avio_alloc_context, "nocontext":
\* avformat_alloc_context, "noinput": avformat_open_input, which frees the
\* context it was given and nulls the pointer)
SetupCustomIO(st, probe) ==
    LET Opened(s) ==
            IF probe = "noinput"
            THEN [ok |-> FALSE,
                  st |-> Step([Free(s, "format").dmx EXCEPT !.m_formatContext = FALSE],
                              Free(s, "format").freed)]
            ELSE [ok |-> TRUE, st |-> Step([s.dmx EXCEPT !.via = "stream"], s.freed)]
        Bridged(s) ==
            IF probe = "nocontext" THEN [ok |-> FALSE, st |-> s]
            ELSE Opened(Step([Allocated(s.dmx, "format") EXCEPT !.m_formatContext = TRUE],
                             s.freed))
        Buffered(s) ==
            IF probe = "noio"
            THEN [ok |-> FALSE,
                  st |-> Step([Free(s, "buffer").dmx EXCEPT !.m_ioBuffer = FALSE],
                              Free(s, "buffer").freed)]
            ELSE Bridged(Step([Allocated(s.dmx, "avio") EXCEPT !.m_ioContext = TRUE],
                              s.freed))
    IN IF probe = "nobuffer" THEN [ok |-> FALSE, st |-> st]
       ELSE Buffered(Step([Allocated(st.dmx, "buffer") EXCEPT !.m_ioBuffer = TRUE],
                          st.freed))

\* VideoDemuxer::Close -> Reset
DemuxerClose(dmx) == Reset(Step(dmx, << >>)).dmx

\* the two VideoDemuxer::Open overloads on the demuxer dmx: probe is what the
\* allocator and the container engine answer ("nosource": the data source
\* pointer is null; "noinfo": avformat_find_stream_info fails; "novideo": the
\* container holds no video stream; the others as in SetupCustomIO)
VideoDemuxer_Open(dmx, via, probe) ==
    LET Failed(s) == [ok |-> FALSE, st |-> Reset(s)]
        Found(f, s) ==
            IF ~f.ok THEN Failed(Step(f.dmx, s.freed))
            ELSE [ok |-> TRUE, st |-> Step(f.dmx, s.freed)]
        Input(s) ==
            IF probe = "noinfo" THEN Failed(s)
            ELSE Found(FindVideoStream(s.dmx, probe), s)
        Custom(r) == IF ~r.ok THEN Failed(r.st) ELSE Input(r.st)
        Closed(s) ==
            IF via = "stream"
            THEN IF probe = "nosource" THEN [ok |-> FALSE, st |-> s]
                 ELSE Custom(SetupCustomIO(s, probe))
            ELSE IF probe = "noinput" THEN [ok |-> FALSE, st |-> s]
                 ELSE Input(Step([Allocated(s.dmx, "format")
                                    EXCEPT !.m_formatContext = TRUE, !.via = "file"],
                                 s.freed))
    IN Closed(Reset(Step(dmx, << >>)))

\* VideoDemuxer::Open on a demuxer just constructed, as open() makes it
DemuxerOpen(via, probe) == VideoDemuxer_Open(ClosedDemuxer, via, probe).st.dmx

\* variant: an open() that returns without release() when the decoder fails
OpenFailureKeepsMembers(s) == s

\* what open() does when the failure of InitializeDecoder is reported
OpenFailure(s) == Released(s)

\* variant: an open() that does not reset the previous session
OpenResetSkipped(s) == s

\* open(): release() of whatever the session held before
OpenReset(s) == Released(s)

\* open() after the s_initialized guard
OpenSession(s, via, probe, engineOk) ==
    LET Decoded(r, dmx) ==
            IF ~r.ok THEN [ok |-> FALSE, why |-> "decoder", s |-> OpenFailure(r.s)]
            ELSE [ok |-> TRUE, why |-> "opened",
                  s |-> [r.s EXCEPT !.m_frameCount = FrameCountOf(dmx),
                                    !.m_opened = TRUE, !.m_eof = FALSE]]
        Demuxed(s1) ==
            IF ~s1.m_demuxer.m_formatContext
            THEN [ok |-> FALSE, why |-> "demuxer", s |-> s1]
            ELSE Decoded(InitializeDecoder(s1, engineOk), s1.m_demuxer)
    IN Demuxed([OpenReset(s) EXCEPT !.m_demuxer = DemuxerOpen(via, probe)])

----------------------------------------------------------------------------
(* The pump loop *)

\* the calls a read() makes: ReceiveFrame, SendPacket with a packet, ReadFrame,
\* SendPacket with the drain signal; failed counts the ReceiveFrame calls that
\* returned false, after the ReadFrame calls made once one of them had
NoCalls == [recv |-> 0, send |-> 0, read |-> 0, drain |-> 0, failed |-> 0, after |-> 0]

\* 1 for a call that returned false
Failure(r) == IF r.ok THEN 0 ELSE 1

Pumped(ok, why, dmx, dec, frame, n) ==
    [ok |-> ok, why |-> why, dmx |-> dmx, dec |-> dec, frame |-> frame, n |-> n]

\* variant: the drain signal is sent but the buffered frame is not collected
DrainStepWithoutReceive(dmx, dec, frame, n, why) ==
    LET Drained(sp) ==
            Pumped(FALSE, why, dmx, sp.dec, frame, [n EXCEPT !.drain = @ + 1])
    IN Drained(SendPacket(dec, NullPacket))

\* the branch taken when ReadFrame returns false: the drain signal and one
\* final ReceiveFrame
DrainStep(dmx, dec, frame, n, why) ==
    LET Final(rf) ==
            Pumped(rf.ok /\ rf.frame.valid, why, dmx, rf.dec, rf.frame,
                   [n EXCEPT !.drain = @ + 1, !.recv = @ + rf.called,
                             !.failed = @ + Failure(rf)])
        Drained(sp) == Final(ReceiveFrame(sp.dec, frame))
    IN Drained(SendPacket(dec, NullPacket))

\* variant: a loop condition that admits one iteration more
LoopContinuesOnceMore(attempts) == attempts <= MAX_ATTEMPTS

\* whether the while loop takes another iteration (attempts++ < MAX_ATTEMPTS)
LoopContinues(attempts) == attempts < MAX_ATTEMPTS

\* the variables of the while loop; done once a return statement has run
Looping(dmx, dec, frame, attempts, n) ==
    [done |-> FALSE, ok |-> FALSE, why |-> "", dmx |-> dmx, dec |-> dec,
     frame |-> frame, attempts |-> attempts, n |-> n]

Returned(p) ==
    [done |-> TRUE, ok |-> p.ok, why |-> p.why, dmx |-> p.dmx, dec |-> p.dec,
     frame |-> p.frame, attempts |-> 0, n |-> p.n]

\* one evaluation of the loop condition and, if it holds, of the loop body
LoopIteration(st) ==
    LET Submitted(sp, rd, rf, n) ==
            IF ~sp.ok
            THEN Returned(Pumped(FALSE, "senderr", rd.dmx, sp.dec, rf.frame,
                                 [n EXCEPT !.send = @ + sp.called]))
            ELSE Looping(rd.dmx, sp.dec, rf.frame, st.attempts + 1,
                         [n EXCEPT !.send = @ + sp.called])
        Pulled(rd, rf, n) ==
            IF ~rd.ok
            THEN Returned(DrainStep(rd.dmx, rf.dec, rf.frame, n,
                                    IF rd.ret = "EAGAIN" THEN "stall" ELSE "nopacket"))
            ELSE Submitted(SendPacket(rf.dec, rd.packet), rd, rf, n)
        Tried(rf) ==
            IF rf.ok /\ rf.frame.valid
            THEN Returned(Pumped(TRUE, "frame", st.dmx, rf.dec, rf.frame,
                                 [st.n EXCEPT !.recv = @ + rf.called]))
            ELSE Pulled(ReadFrame(st.dmx), rf,
                        [st.n EXCEPT !.recv = @ + rf.called, !.read = @ + 1,
                                     !.failed = @ + Failure(rf),
                                     !.after = IF st.n.failed + Failure(rf) > 0
                                               THEN @ + 1 ELSE @])
    IN IF st.done THEN st
       ELSE IF ~LoopContinues(st.attempts)
       THEN Returned(Pumped(FALSE, "exhausted", st.dmx, st.dec, st.frame, st.n))
       ELSE Tried(ReceiveFrame(st.dec, st.frame))

\* k evaluations of the loop, one after the other
RECURSIVE Iterate(_, _)
Iterate(st, k) ==
    IF k = 0 \/ st.done THEN st
    ELSE IF k = 1 THEN LoopIteration(st)
    ELSE Iterate(Iterate(st, k \div 2), k - (k \div 2))

\* the while loop and the failure return after it
DecodeLoop(dmx, dec, frame) ==
    Iterate(Looping(dmx, dec, frame, 0, NoCalls), MAX_ATTEMPTS + 1)

DecodeNextFrame(s) ==
    IF s.m_decoder = NullPtr \/ s.m_demuxer = NullPtr
    THEN Pumped(FALSE, "null", s.m_demuxer, s.m_decoder, s.m_currentFrame, NoCalls)
    ELSE DecodeLoop(s.m_demuxer, s.m_decoder, s.m_currentFrame)

\* variant: a read() that checks m_opened only and pumps again after EOF
ReadRefusesUnopenedOnly(s) == ~s.m_opened

\* read(): the guard that fails the call at once
ReadRefuses(s) == ~s.m_opened \/ s.m_eof

ReadSession(s) ==
    LET Decoded(r, s1) ==
            IF ~r.ok
            THEN [ret |-> FALSE, why |-> r.why, n |-> r.n,
                  s |-> [s1 EXCEPT !.m_eof = TRUE]]
            ELSE IF s1.m_currentFrame = NullPtr \/ ~s1.m_currentFrame.valid
                 THEN [ret |-> FALSE, why |-> "invalid", s |-> s1, n |-> r.n]
                 ELSE [ret |-> TRUE, why |-> r.why, s |-> s1, n |-> r.n]
        Pump(r) ==
            Decoded(r, [s EXCEPT !.m_demuxer = r.dmx, !.m_decoder = r.dec,
                                 !.m_currentFrame = r.frame])
    IN IF ReadRefuses(s)
       THEN [ret |-> FALSE, why |-> "refused", s |-> s, n |-> NoCalls]
       ELSE Pump(DecodeNextFrame(s))

----------------------------------------------------------------------------
(* get / set *)

PropIds == 0..8
PositionProps == {CAP_PROP_POS_MSEC, CAP_PROP_POS_FRAMES, CAP_PROP_POS_AVI_RATIO}

GetValue(s, propId) ==
    IF ~s.m_opened THEN Zero
    ELSE IF propId = CAP_PROP_FRAME_WIDTH THEN Frac(GetWidth(s.m_demuxer), 1)
    ELSE IF propId = CAP_PROP_FRAME_HEIGHT THEN Frac(GetHeight(s.m_demuxer), 1)
    ELSE IF propId = CAP_PROP_FPS THEN GetFrameRate(s.m_demuxer)
    ELSE IF propId = CAP_PROP_FRAME_COUNT THEN Frac(s.m_frameCount, 1)
    ELSE IF propId = CAP_PROP_POS_MSEC
         THEN (IF s.m_currentFrame # NullPtr /\ s.m_currentFrame.valid
               THEN FracMul(s.m_currentFrame.presentationTime, Frac(1000, 1))
               ELSE Zero)
    ELSE IF propId = CAP_PROP_POS_FRAMES
         THEN (IF s.m_currentFrame # NullPtr /\ s.m_currentFrame.valid
                  /\ FracLess(Zero, GetFrameRate(s.m_demuxer))
               THEN FracMul(s.m_currentFrame.presentationTime, GetFrameRate(s.m_demuxer))
               ELSE Zero)
    ELSE IF propId = CAP_PROP_POS_AVI_RATIO
         THEN (IF s.m_currentFrame # NullPtr /\ s.m_currentFrame.valid
                  /\ FracLess(Zero, GetDuration(s.m_demuxer))
               THEN FracDiv(s.m_currentFrame.presentationTime, GetDuration(s.m_demuxer))
               ELSE Zero)
    ELSE Zero

\* the demuxer seek a position property asks for
SeekFor(s, propId, value) ==
    IF propId = CAP_PROP_POS_MSEC
    THEN [tried |-> TRUE] @@ SeekToTime(s.m_demuxer, FracDiv(value, Frac(1000, 1)))
    ELSE IF propId = CAP_PROP_POS_FRAMES
    THEN [tried |-> TRUE] @@ SeekToFrame(s.m_demuxer, Trunc(value))
    ELSE IF FracLess(Zero, GetDuration(s.m_demuxer))
         THEN [tried |-> TRUE]
              @@ SeekToTime(s.m_demuxer, FracMul(value, GetDuration(s.m_demuxer)))
         ELSE [tried |-> FALSE, ok |-> FALSE, dmx |-> s.m_demuxer]

\* the statements of set(), each on the session and the log of what ran
SeekStep(st, dmx) ==
    [s |-> [st.s EXCEPT !.m_demuxer = dmx], steps |-> Append(st.steps, "seek")]
FlushStep(st) ==
    [s |-> [st.s EXCEPT !.m_decoder = Flush(@)], steps |-> Append(st.steps, "flush")]
ClearEofStep(st) ==
    [s |-> [st.s EXCEPT !.m_eof = FALSE], steps |-> Append(st.steps, "eof")]

\* variant: a set() that seeks and clears EOF but leaves the decoder unflushed
AfterSeekWithoutFlush(s, dmx) ==
    ClearEofStep(SeekStep([s |-> s, steps |-> << >>], dmx))

\* set(): after the seek succeeded
AfterSeek(s, dmx) ==
    ClearEofStep(FlushStep(SeekStep([s |-> s, steps |-> << >>], dmx)))

\* variant: a set() that flushes the decoder although the seek failed
AfterFailedSeekFlushes(s, dmx) ==
    FlushStep(SeekStep([s |-> s, steps |-> << >>], dmx))

\* set(): after the seek failed: return false, nothing else runs
AfterFailedSeek(s, dmx) ==
    SeekStep([s |-> s, steps |-> << >>], dmx)

\* set(): the duration is unknown, no seek is attempted
WithoutSeek(s) == [s |-> s, steps |-> << >>]

SetSession(s, propId, value) ==
    LET Sought(sk) ==
            IF sk.ok
            THEN [ret |-> TRUE, why |-> "sought"] @@ AfterSeek(s, sk.dmx)
            ELSE IF sk.tried
            THEN [ret |-> FALSE, why |-> "seekfailed"] @@ AfterFailedSeek(s, sk.dmx)
            ELSE [ret |-> FALSE, why |-> "noduration"] @@ WithoutSeek(s)
    IN IF ~s.m_opened
       THEN [ret |-> FALSE, why |-> "closed", s |-> s, steps |-> << >>]
       ELSE IF propId \notin PositionProps
       THEN [ret |-> FALSE, why |-> "unsupported", s |-> s, steps |-> << >>]
       ELSE Sought(SeekFor(s, propId, value))

----------------------------------------------------------------------------
(* The data sources behind IDataSource.  Bytes are numbered: the k-th byte *)
(* ever handed to a buffer source is k; byte i of a file is i.             *)

Min(a, b) == IF a < b THEN a ELSE b

\* m_buffer.data() + from, count bytes
Bytes(buf, from, count) == SubSeq(buf, from + 1, from + count)

\* BufferDataSource::BufferDataSource()
NewBufferDataSource ==
    [m_buffer |-> << >>, m_position |-> 0, m_seekable |-> TRUE, m_eof |-> FALSE]

\* what a call leaves: the object, the value returned, the bytes copied out
Outcome(b, ret, data) == [b |-> b, ret |-> ret, data |-> data]

\* variant: the end of the buffered bytes is reported as EOF whether or not
\* EOF was marked
BufferDataSource_ReadEofUnmarked(b, size) ==
    IF b.m_position >= Len(b.m_buffer)
    THEN Outcome(b, AVERROR_EOF, << >>)
    ELSE LET available == Len(b.m_buffer) - b.m_position
             toRead == Min(size, available)
         IN Outcome([b EXCEPT !.m_position = @ + toRead], toRead,
                    Bytes(b.m_buffer, b.m_position, toRead))

\* BufferDataSource::Read
BufferDataSource_Read(b, size) ==
    IF b.m_position >= Len(b.m_buffer)
    THEN IF b.m_eof
         THEN Outcome(b, AVERROR_EOF, << >>)
         ELSE Outcome(b, AVERROR(EAGAIN), << >>)
    ELSE LET available == Len(b.m_buffer) - b.m_position
             toRead == Min(size, available)
         IN Outcome([b EXCEPT !.m_position = @ + toRead], toRead,
                    Bytes(b.m_buffer, b.m_position, toRead))

\* variant: a Seek that accepts a target past the end of the buffer
BufferDataSource_SeekPastEnd(b, offset, whence) ==
    IF ~b.m_seekable THEN Outcome(b, AVERROR(ENOSYS), << >>)
    ELSE IF whence = AVSEEK_SIZE THEN Outcome(b, Len(b.m_buffer), << >>)
    ELSE IF whence \notin {SEEK_SET, SEEK_CUR, SEEK_END}
         THEN Outcome(b, AVERROR(EINVAL), << >>)
    ELSE LET newPos == IF whence = SEEK_SET THEN offset
                       ELSE IF whence = SEEK_CUR THEN b.m_position + offset
                       ELSE Len(b.m_buffer) + offset
         IN IF newPos < 0
            THEN Outcome(b, AVERROR(EINVAL), << >>)
            ELSE Outcome([b EXCEPT !.m_position = newPos], newPos, << >>)

\* BufferDataSource::Seek
BufferDataSource_Seek(b, offset, whence) ==
    IF ~b.m_seekable THEN Outcome(b, AVERROR(ENOSYS), << >>)
    ELSE IF whence = AVSEEK_SIZE THEN Outcome(b, Len(b.m_buffer), << >>)
    ELSE IF whence \notin {SEEK_SET, SEEK_CUR, SEEK_END}
         THEN Outcome(b, AVERROR(EINVAL), << >>)
    ELSE LET newPos == IF whence = SEEK_SET THEN offset
                       ELSE IF whence = SEEK_CUR THEN b.m_position + offset
                       ELSE Len(b.m_buffer) + offset
         IN IF newPos < 0 \/ newPos > Len(b.m_buffer)
            THEN Outcome(b, AVERROR(EINVAL), << >>)
            ELSE Outcome([b EXCEPT !.m_position = newPos], newPos, << >>)

\* BufferDataSource::GetSize
BufferDataSource_GetSize(b) ==
    Outcome(b, IF b.m_eof THEN Len(b.m_buffer) ELSE -1, << >>)

\* BufferDataSource::IsSeekable
BufferDataSource_IsSeekable(b) == Outcome(b, b.m_seekable, << >>)

\* variant: a SetData that leaves the cursor where it was
BufferDataSource_SetDataKeepsPosition(b, data) ==
    Outcome([b EXCEPT !.m_buffer = data], "void", << >>)

\* BufferDataSource::SetData
BufferDataSource_SetData(b, data) ==
    Outcome([b EXCEPT !.m_buffer = data, !.m_position = 0], "void", << >>)

\* variant: the new chunk is inserted before the bytes already buffered
BufferDataSource_AppendDataAtFront(b, data) ==
    Outcome([b EXCEPT !.m_buffer = data \o @], "void", << >>)

\* BufferDataSource::AppendData
BufferDataSource_AppendData(b, data) ==
    Outcome([b EXCEPT !.m_buffer = @ \o data], "void", << >>)

\* BufferDataSource::Clear
BufferDataSource_Clear(b) ==
    Outcome([b EXCEPT !.m_buffer = << >>, !.m_position = 0, !.m_eof = FALSE],
            "void", << >>)

\* BufferDataSource::SetSeekable
BufferDataSource_SetSeekable(b, seekable) ==
    Outcome([b EXCEPT !.m_seekable = seekable], "void", << >>)

\* BufferDataSource::SetEOF
BufferDataSource_SetEOF(b, eof) == Outcome([b EXCEPT !.m_eof = eof], "void", << >>)

\* BufferDataSource::GetBytesAvailable
BufferDataSource_GetBytesAvailable(b) ==
    Outcome(b, Len(b.m_buffer) - b.m_position, << >>)

\* BufferDataSource::GetPosition
BufferDataSource_GetPosition(b) == Outcome(b, b.m_position, << >>)

\* WebRTCDataSource::WebRTCDataSource(): its buffer, made non-seekable
NewWebRTCBuffer == BufferDataSource_SetSeekable(NewBufferDataSource, FALSE).b

\* the members of a WebRTCDataSource as constructed; state is that of
\* m_peerConnection ("New" also stands for no connection yet)
NewWebRTCDataSource == [m_connected |-> FALSE, m_initialized |-> FALSE, state |-> "New"]

\* WebRTCDataSource::Read
WebRTCDataSource_Read(b, size) == BufferDataSource_Read(b, size)

\* WebRTCDataSource::Seek
WebRTCDataSource_Seek(b, offset, whence) == BufferDataSource_Seek(b, offset, whence)

\* WebRTCDataSource::GetSize
WebRTCDataSource_GetSize(b) == BufferDataSource_GetSize(b)

\* the operations of BufferDataSource that open with a lock_guard on m_mutex
Locking ==
    {"Read", "Seek", "GetSize", "SetData", "AppendData", "Clear", "SetEOF",
     "GetBytesAvailable", "GetPosition"}

\* the body of a call c = [op, arg] on buffer b, reached through source i
Body(i, b, c) ==
    CASE c.op = "Read" -> IF i = "webrtc" THEN WebRTCDataSource_Read(b, c.arg[1])
                          ELSE BufferDataSource_Read(b, c.arg[1])
      [] c.op = "Seek" -> IF i = "webrtc"
                          THEN WebRTCDataSource_Seek(b, c.arg[1], c.arg[2])
                          ELSE BufferDataSource_Seek(b, c.arg[1], c.arg[2])
      [] c.op = "GetSize" -> IF i = "webrtc" THEN WebRTCDataSource_GetSize(b)
                             ELSE BufferDataSource_GetSize(b)
      [] c.op = "IsSeekable" -> BufferDataSource_IsSeekable(b)
      [] c.op = "SetData" -> BufferDataSource_SetData(b, c.arg[1])
      [] c.op = "AppendData" -> BufferDataSource_AppendData(b, c.arg[1])
      [] c.op = "Clear" -> BufferDataSource_Clear(b)
      [] c.op = "SetSeekable" -> BufferDataSource_SetSeekable(b, c.arg[1])
      [] c.op = "SetEOF" -> BufferDataSource_SetEOF(b, c.arg[1])
      [] c.op = "GetBytesAvailable" -> BufferDataSource_GetBytesAvailable(b)
      [] c.op = "GetPosition" -> BufferDataSource_GetPosition(b)

\* FileDataSource::FileDataSource(): no FILE; length is the file on disk
NewFileDataSource(length) ==
    [m_file |-> FALSE, m_size |-> -1, length |-> length, pos |-> 0]

\* FileDataSource::Close
FileDataSource_Close(f) == [f EXCEPT !.m_file = FALSE, !.m_size = -1]

\* FileDataSource::Open; fopenOk is whether the C runtime opens the path
FileDataSource_Open(f, fopenOk) ==
    LET closed == FileDataSource_Close(f)
    IN IF ~fopenOk THEN Outcome(closed, FALSE, << >>)
       ELSE Outcome([closed EXCEPT !.m_file = TRUE, !.pos = 0, !.m_size = f.length],
                    TRUE, << >>)

\* FileDataSource::Read; ioError is fread failing with ferror set
FileDataSource_Read(f, size, ioError) ==
    IF ~f.m_file THEN Outcome(f, -1, << >>)
    ELSE LET left == IF f.pos < f.length THEN f.length - f.pos ELSE 0
             bytesRead == IF ioError THEN 0 ELSE Min(size, left)
         IN IF bytesRead = 0 /\ ioError THEN Outcome(f, -1, << >>)
            ELSE Outcome([f EXCEPT !.pos = @ + bytesRead], bytesRead,
                         [k \in 1..bytesRead |-> f.pos + k])

\* FileDataSource::Seek (fseeko, then ftello)
FileDataSource_Seek(f, offset, whence) ==
    IF ~f.m_file THEN Outcome(f, -1, << >>)
    ELSE IF whence \notin {SEEK_SET, SEEK_CUR, SEEK_END} THEN Outcome(f, -1, << >>)
    ELSE LET newPos == IF whence = SEEK_SET THEN offset
                       ELSE IF whence = SEEK_CUR THEN f.pos + offset
                       ELSE f.length + offset
         IN IF newPos < 0 THEN Outcome(f, -1, << >>)
            ELSE Outcome([f EXCEPT !.pos = newPos], newPos, << >>)

\* VideoDemuxer::ReadPacket, the read callback of the custom IO context, given
\* what dataSource->Read returned
ReadPacket(bytesRead) ==
    IF bytesRead < 0 THEN bytesRead
    ELSE IF bytesRead = 0 THEN AVERROR_EOF
    ELSE bytesRead


\* no call in progress / none completed
Idle == [op |-> "idle", arg |-> << >>]
NoResult ==
    [thread |-> "none", op |-> "none", arg |-> << >>, ret |-> "void", data |-> << >>,
     pre |-> NewBufferDataSource]

Threads == {"producer", "consumer"}

\* the data sources as they stand while the capture session is exercised
NoSources ==
    /\ impl = "none"
    /\ bds = NewBufferDataSource
    /\ m_mutex = "free"
    /\ running = [t \in Threads |-> Idle]
    /\ file = NewFileDataSource(0)
    /\ result = NoResult
    /\ supplied = 0
    /\ received = << >>
    /\ webrtc = NewWebRTCDataSource

----------------------------------------------------------------------------
(* The calls: one action each *)

\* a call: its arguments, what it returned, the engine calls it made, the
\* objects it destroyed, the statements of set() it ran, and the flags of the
\* session when it was made
Call(op, arg, ret, why, n, freed, steps) ==
    [op |-> op, arg |-> arg, ret |-> ret, why |-> why, n |-> n, freed |-> freed,
     steps |-> steps, pre |-> [opened |-> m_opened, eof |-> m_eof]]

NoCall == [op |-> "none", arg |-> << >>, ret |-> FALSE, why |-> "", n |-> NoCalls,
           freed |-> << >>, steps |-> << >>, pre |-> [opened |-> FALSE, eof |-> FALSE]]

SetMembers(s) ==
    /\ m_demuxer' = s.m_demuxer
    /\ m_decoder' = s.m_decoder
    /\ m_currentFrame' = s.m_currentFrame
    /\ m_opened' = s.m_opened
    /\ m_eof' = s.m_eof
    /\ m_frameCount' = s.m_frameCount

\* frame index of the video packet the demuxer will surface next
FrameIndexAt(dmx) == (dmx.pos \div Group(media)) - media.lead

\* variant: an Initialize that never takes its early return
AlreadyInitializedNever == FALSE

\* Initialize: the early return once the library is initialized
AlreadyInitialized == s_initialized

\* VideoCapture::Initialize(device)
Initialize(device) ==
    /\ IF AlreadyInitialized
       THEN /\ UNCHANGED <<procVars, hwVars>>
            /\ last' = Call("Initialize", <<device>>, TRUE, "already", NoCalls, << >>, << >>)
       ELSE IF device = NullDevice
       THEN /\ UNCHANGED <<procVars, hwVars>>
            /\ last' = Call("Initialize", <<device>>, FALSE, "null", NoCalls, << >>, << >>)
       ELSE /\ s_d3dDevice' = device
            /\ devRefs' = devRefs + 1
            \* ffmpegInit.Initialize() passes no device on to the probe
            /\ hw_initialized' = HwInitializeResult(NullDevice)[1]
            /\ s_availableDecoders' = HwInitializeResult(NullDevice)[2]
            /\ s_initialized' = TRUE
            /\ last' = Call("Initialize", <<device>>, TRUE, "done", NoCalls, << >>, << >>)
    /\ UNCHANGED <<srcVars, platform, media, source, sessionVars, delivered, origin, released>>

\* HardwareDecoder::Initialize(d3dDevice)
HwInitialize(device) ==
    /\ hw_initialized' = HwInitializeResult(device)[1]
    /\ s_availableDecoders' = HwInitializeResult(device)[2]
    /\ last' = Call("HwInitialize", <<device>>, TRUE,
                    IF hw_initialized THEN "already" ELSE "probed", NoCalls, << >>, << >>)
    /\ UNCHANGED <<procVars, srcVars, platform, media, source, sessionVars, delivered, origin, released>>

\* HardwareDecoder::Cleanup()
HwCleanup ==
    /\ IF hw_initialized
       THEN s_availableDecoders' = << >> /\ hw_initialized' = FALSE
       ELSE UNCHANGED hwVars
    /\ last' = Call("HwCleanup", << >>, TRUE, "", NoCalls, << >>, << >>)
    /\ UNCHANGED <<procVars, srcVars, platform, media, source, sessionVars, delivered, origin, released>>

\* variant: an open() without the s_initialized guard
OpenRefusesNever == FALSE

\* open(): the guard on VideoCapture::Initialize having succeeded
OpenRefuses == ~s_initialized

\* open(): by file name (via = "file") or over a data source (via = "stream")
OpenVia(via, probe, engineOk) ==
    /\ IF OpenRefuses
       THEN /\ UNCHANGED <<sessionVars, delivered, origin, released>>
            /\ last' = Call("open", <<via, probe, engineOk>>, FALSE, "uninitialized",
                            NoCalls, << >>, << >>)
       ELSE \E r \in {OpenSession(Current, via, probe, engineOk)} :
            /\ SetMembers(r.s)
            /\ delivered' = << >>
            /\ origin' = 0
            /\ released' = (released /\ ~r.ok)
            /\ last' = Call("open", <<via, probe, engineOk>>, r.ok, r.why, NoCalls,
                            Freed(Current), << >>)
    /\ UNCHANGED <<procVars, hwVars, srcVars, platform, media, source>>

\* bool VideoCapture::open(const std::string& filename)
Open(probe, engineOk) == OpenVia("file", probe, engineOk)

\* open(IDataSource*, format), the overload the WebRTC player calls
OpenSource(probe, engineOk) == OpenVia("stream", probe, engineOk)

\* bool VideoCapture::read(...)
Read ==
    \E r \in {ReadSession(Current)} :
    /\ SetMembers(r.s)
    /\ delivered' = IF r.ret THEN Append(delivered, r.s.m_currentFrame.texture)
                    ELSE delivered
    /\ last' = Call("read", << >>, r.ret, r.why, r.n, << >>, << >>)
    /\ UNCHANGED <<procVars, hwVars, srcVars, platform, media, source, origin, released>>

\* double VideoCapture::get(int propId)
Get(propId) ==
    /\ last' = Call("get", <<propId, GetValue(Current, propId)>>, TRUE, "", NoCalls,
                    << >>, << >>)
    /\ UNCHANGED <<procVars, hwVars, srcVars, platform, media, source, sessionVars, delivered,
                   origin, released>>

\* bool VideoCapture::set(int propId, double value)
Set(propId, value) ==
    \E r \in {SetSession(Current, propId, value)} :
    /\ SetMembers(r.s)
    /\ delivered' = IF r.ret THEN << >> ELSE delivered
    /\ origin' = IF r.ret THEN FrameIndexAt(r.s.m_demuxer) ELSE origin
    /\ last' = Call("set", <<propId, value>>, r.ret, r.why, NoCalls, << >>, r.steps)
    /\ UNCHANGED <<procVars, hwVars, srcVars, platform, media, source, released>>

\* void VideoCapture::release()
Release ==
    /\ SetMembers(Released(Current))
    /\ delivered' = << >>
    /\ origin' = 0
    /\ released' = TRUE
    /\ last' = Call("release", << >>, TRUE, "", NoCalls, Freed(Current), << >>)
    /\ UNCHANGED <<procVars, hwVars, srcVars, platform, media, source>>

\* the media short enough to be fed through the streaming buffer
Streamable(m) ==
    m.aud = 0 /\ m.lead = 0 /\ m.faultAt = 0 /\ m.frames < MaxFrames /\ m.delay < MaxDelay

\* the producer appends the next k packets of the media to the buffer
ProducerAppend(k) ==
    /\ Streamable(media)
    /\ ~source.eof
    /\ source.avail + k <= RawLen(media)
    /\ source' = [source EXCEPT !.avail = @ + k]
    /\ last' = Call("append", <<k>>, TRUE, "", NoCalls, << >>, << >>)
    /\ UNCHANGED <<procVars, hwVars, srcVars, platform, media, sessionVars, delivered, origin, released>>

\* the transport closes: the buffer's EOF flag is set
ProducerSetEOF ==
    /\ ~source.eof
    /\ source' = [source EXCEPT !.eof = TRUE]
    /\ last' = Call("seteof", << >>, TRUE, "", NoCalls, << >>, << >>)
    /\ UNCHANGED <<procVars, hwVars, srcVars, platform, media, sessionVars, delivered, origin, released>>

----------------------------------------------------------------------------
(* Specifications *)

Devices == {NullDevice, Device, OtherDevice}
Probes == {"ok", "noinput", "noinfo"}
Platforms == { {}, {"H264"}, {"H264", "HEVC", "AV1"} }
SetValues == {Frac(0, 1), Frac(5, 2), Frac(80, 1)}

\* the media a session is never opened over differ only in what open() reads
ProbeMedia == { m \in Media : RawLen(m) <= 2 /\ m.delay = 0 /\ m.aud = 0 }

\* the process after start-up: nothing initialized, a session just constructed
Init ==
    /\ s_initialized = FALSE
    /\ s_d3dDevice = NullDevice
    /\ devRefs = 0
    /\ hw_initialized = FALSE
    /\ s_availableDecoders = << >>
    /\ platform \in Platforms
    /\ media \in ProbeMedia
    /\ source = [avail |-> 0, eof |-> FALSE]
    /\ m_demuxer = Constructed.m_demuxer
    /\ m_decoder = Constructed.m_decoder
    /\ m_currentFrame = Constructed.m_currentFrame
    /\ m_opened = Constructed.m_opened
    /\ m_eof = Constructed.m_eof
    /\ m_frameCount = Constructed.m_frameCount
    /\ last = NoCall
    /\ delivered = << >>
    /\ origin = 0
    /\ released = FALSE
    /\ NoSources

SessionCall ==
    \/ \E probe \in Probes, engineOk \in BOOLEAN : Open(probe, engineOk)
    \/ \E probe \in Probes, engineOk \in BOOLEAN : OpenSource(probe, engineOk)
    \/ Read
    \/ \E propId \in PropIds : Get(propId)
    \/ \E propId \in PositionProps, value \in SetValues : Set(propId, value)
    \/ \E propId \in PropIds \ PositionProps : Set(propId, Zero)
    \/ Release
    \/ \E k \in 1..2 : ProducerAppend(k)
    \/ ProducerSetEOF

Next ==
    \/ \E device \in Devices : Initialize(device)
    \/ \E device \in Devices : HwInitialize(device)
    \/ HwCleanup
    \/ SessionCall

Spec == Init /\ [][Next]_vars

\* A session as open() leaves it when it succeeds (the statements after
\* InitializeDecoder: frame count computed, m_opened set, m_eof cleared), over
\* a file or over a streaming buffer the producer is still filling.
D3D11VADecoder == [type |-> "D3D11VA", available |-> TRUE]

OpenedSession(via) ==
    [ [ Session(OpenDemuxer(via), NewDecoder(media, D3D11VADecoder), NewDecodedFrame,
                FALSE, FALSE, 0)
        EXCEPT !.m_frameCount = FrameCountOf(OpenDemuxer(via)) ]
      EXCEPT !.m_opened = TRUE, !.m_eof = FALSE ]

InitSession ==
    /\ s_initialized = TRUE
    /\ s_d3dDevice = Device
    /\ devRefs = 1
    /\ hw_initialized = TRUE
    /\ platform = {"H264", "HEVC", "AV1"}
    /\ s_availableDecoders = << D3D11VADecoder >>
    /\ media \in { m \in Media : m.codec \in AllowedCodecs }
    /\ \E via \in {"file", "stream"} :
         /\ via = "stream" => Streamable(media)
         /\ source \in IF via = "file"
                       THEN { [avail |-> RawLen(media), eof |-> TRUE] }
                       ELSE { [avail |-> 0, eof |-> FALSE] }
         /\ m_demuxer = OpenedSession(via).m_demuxer
         /\ m_decoder = OpenedSession(via).m_decoder
         /\ m_currentFrame = OpenedSession(via).m_currentFrame
         /\ m_opened = OpenedSession(via).m_opened
         /\ m_eof = OpenedSession(via).m_eof
         /\ m_frameCount = OpenedSession(via).m_frameCount
    /\ last = [NoCall EXCEPT !.op = "open", !.ret = TRUE]
    /\ delivered = << >>
    /\ origin = 0
    /\ released = FALSE
    /\ NoSources

SpecSession == InitSession /\ [][SessionCall]_vars

----------------------------------------------------------------------------
(* The decoder used on its own: a caller that owns a VideoDecoder and a    *)
(* DecodedFrame and calls SendPacket, ReceiveFrame and Flush in any order. *)

\* the packet a caller submits: 0 is the null (drain) packet
Submitted(i) == IF i = 0 THEN NullPacket ELSE VideoPacket(media, i)

\* decoder->SendPacket(packet)
CallSendPacket(i) ==
    \E r \in {SendPacket(m_decoder, Submitted(i))} :
    /\ m_decoder' = r.dec
    /\ last' = Call("SendPacket", <<i>>, r.ok, r.engine,
                    [NoCalls EXCEPT !.send = r.called], << >>, << >>)
    /\ UNCHANGED <<procVars, hwVars, srcVars, platform, media, source, m_demuxer, m_currentFrame,
                   m_opened, m_eof, m_frameCount, delivered, origin, released>>

\* decoder->ReceiveFrame(frame)
CallReceiveFrame ==
    \E r \in {ReceiveFrame(m_decoder, m_currentFrame)} :
    /\ m_decoder' = r.dec
    /\ m_currentFrame' = r.frame
    /\ last' = Call("ReceiveFrame", << >>, r.ok, r.engine,
                    [NoCalls EXCEPT !.recv = r.called], << >>, << >>)
    /\ UNCHANGED <<procVars, hwVars, srcVars, platform, media, source, m_demuxer,
                   m_opened, m_eof, m_frameCount, delivered, origin, released>>

\* decoder->Flush()
CallFlush ==
    /\ m_decoder' = Flush(m_decoder)
    /\ last' = Call("Flush", << >>, TRUE,
                    IF m_decoder.draining THEN "draining"
                    ELSE IF m_decoder.queue # << >> THEN "buffered" ELSE "empty",
                    NoCalls, << >>, << >>)
    /\ UNCHANGED <<procVars, hwVars, srcVars, platform, media, source, m_demuxer, m_currentFrame,
                   m_opened, m_eof, m_frameCount, delivered, origin, released>>

\* the media whose packets the caller submits
DecoderMedia ==
    { m \in Media : m.codec \in AllowedCodecs /\ m.lead <= 1 /\ m.delay <= MaxDelay
                    /\ m.aud = 0 }
    \* a picture that comes out of the engine as a software frame
    \cup { MediaOf(0, MaxFrames, 2, 0, d, at, "swframe", "AV1", 120000, 25, TRUE) :
             d \in 0..1, at \in {1, MaxFrames} }

\* a decoder after VideoDecoder::Initialize, succeeded or failed, and a
\* fresh frame holder; no session is involved
InitDecoder ==
    /\ s_initialized = TRUE
    /\ s_d3dDevice = Device
    /\ devRefs = 1
    /\ hw_initialized = TRUE
    /\ platform = {"H264", "HEVC", "AV1"}
    /\ s_availableDecoders = << D3D11VADecoder >>
    /\ media \in DecoderMedia
    /\ source = [avail |-> 0, eof |-> FALSE]
    /\ m_demuxer = NullPtr
    /\ m_decoder \in {DecoderInitialize(D3D11VADecoder, Device, ok) : ok \in BOOLEAN}
    /\ m_currentFrame = NewDecodedFrame
    /\ m_opened = FALSE
    /\ m_eof = FALSE
    /\ m_frameCount = 0
    /\ last = NoCall
    /\ delivered = << >>
    /\ origin = 0
    /\ released = FALSE
    /\ NoSources

DecoderCall ==
    \/ \E i \in 0..MaxFrames : i <= NumVideo(media) /\ CallSendPacket(i)
    \/ CallReceiveFrame
    \/ CallFlush

SpecDecoder == InitDecoder /\ [][DecoderCall]_vars

----------------------------------------------------------------------------
(* The demuxer used on its own: a caller that owns a VideoDemuxer, opens   *)
(* it over a file or over a streaming buffer that a producer fills, and    *)
(* calls ReadFrame, the seeks and Close in any order.                      *)

\* the failures particular to custom IO
IoProbes == {"nosource", "nobuffer", "noio", "nocontext"}

\* demuxer->Open(filePath) / demuxer->Open(dataSource, format)
DemuxOpen(via, probe) ==
    /\ via = "stream" => Streamable(media)
    /\ probe \in IoProbes => via = "stream"
    /\ \E r \in {VideoDemuxer_Open(m_demuxer, via, probe)} :
         /\ m_demuxer' = r.st.dmx
         /\ last' = Call("Open", <<via, probe>>, r.ok, "", NoCalls, r.st.freed, << >>)
    /\ UNCHANGED <<procVars, hwVars, srcVars, platform, media, source, m_decoder,
                   m_currentFrame, m_opened, m_eof, m_frameCount, delivered, origin,
                   released>>

\* demuxer->ReadFrame(packet); arg is the container position before the call
\* and the packet handed back, steps the number of packets freed
DemuxReadFrame ==
    \E r \in {ReadFrame(m_demuxer)} :
    /\ m_demuxer' = r.dmx
    /\ last' = Call("ReadFrame", <<m_demuxer.pos, r.packet>>, r.ok, r.ret,
                    [NoCalls EXCEPT !.read = 1], << >>, <<r.freed>>)
    /\ UNCHANGED <<procVars, hwVars, srcVars, platform, media, source, m_decoder,
                   m_currentFrame, m_opened, m_eof, m_frameCount, delivered, origin,
                   released>>

\* demuxer->SeekToFrame(frameNumber)
DemuxSeekToFrame(frameNumber) ==
    \E r \in {SeekToFrame(m_demuxer, frameNumber)} :
    /\ m_demuxer' = r.dmx
    /\ last' = Call("SeekToFrame", <<frameNumber>>, r.ok, "", NoCalls, << >>, << >>)
    /\ UNCHANGED <<procVars, hwVars, srcVars, platform, media, source, m_decoder,
                   m_currentFrame, m_opened, m_eof, m_frameCount, delivered, origin,
                   released>>

\* demuxer->Close()
DemuxClose ==
    /\ m_demuxer' = DemuxerClose(m_demuxer)
    /\ last' = Call("Close", << >>, TRUE, "", NoCalls,
                    Reset(Step(m_demuxer, << >>)).freed, << >>)
    /\ UNCHANGED <<procVars, hwVars, srcVars, platform, media, source, m_decoder,
                   m_currentFrame, m_opened, m_eof, m_frameCount, delivered, origin,
                   released>>

DemuxProbes == Probes \cup {"novideo"} \cup IoProbes

\* containers short enough to be read to the end packet by packet
DemuxMedia == { m \in Media : RawLen(m) <= 2 * MaxFrames /\ m.delay = 0 /\ m.faultAt = 0 }

\* a VideoDemuxer just constructed; no session and no decoder are involved
InitDemuxer ==
    /\ s_initialized = FALSE
    /\ s_d3dDevice = NullDevice
    /\ devRefs = 0
    /\ hw_initialized = FALSE
    /\ s_availableDecoders = << >>
    /\ platform = {}
    /\ media \in DemuxMedia
    /\ source = [avail |-> 0, eof |-> FALSE]
    /\ m_demuxer = ClosedDemuxer
    /\ m_decoder = Constructed.m_decoder
    /\ m_currentFrame = Constructed.m_currentFrame
    /\ m_opened = Constructed.m_opened
    /\ m_eof = Constructed.m_eof
    /\ m_frameCount = Constructed.m_frameCount
    /\ last = NoCall
    /\ delivered = << >>
    /\ origin = 0
    /\ released = FALSE
    /\ NoSources

DemuxerCall ==
    \/ \E via \in {"file", "stream"}, probe \in DemuxProbes : DemuxOpen(via, probe)
    \/ DemuxReadFrame
    \/ \E frameNumber \in 0..MaxFrames : DemuxSeekToFrame(frameNumber)
    \/ DemuxClose
    \/ \E k \in 1..2 : ProducerAppend(k)
    \/ ProducerSetEOF

SpecDemuxer == InitDemuxer /\ [][DemuxerCall]_vars

----------------------------------------------------------------------------
(* The data sources used on their own.  A buffer source is shared by two   *)
(* threads: the one that feeds it (for WebRTCDataSource, the track and     *)
(* state callbacks) and the one that reads it (the container engine's read *)
(* callback).  A call on it is two steps: entering it, which for a locking *)
(* operation acquires m_mutex, and returning from it, which runs its body  *)
(* and releases m_mutex.  A file source is used by one thread.             *)

\* the next n bytes to hand over, after the first `from`
Chunk(from, n) == [k \in 1..n |-> from + k]

\* (offset, whence) pairs tried on Seek
SeekArgs ==
    {<<0, SEEK_SET>>, <<1, SEEK_CUR>>, <<-1, SEEK_END>>, <<0, AVSEEK_SIZE>>, <<0, 3>>}

FeedCalls(n) ==
    { [op |-> "AppendData", arg |-> <<Chunk(n, k)>>] :
          k \in {j \in 1..MaxChunk : n + j <= MaxBytes} }

\* the calls thread t may begin on the buffer through source i, n bytes supplied
Calls(i, t, n) ==
    IF t = "producer"
    THEN FeedCalls(n)
         \cup {[op |-> "Clear", arg |-> << >>]}
         \cup (IF i = "webrtc" THEN {[op |-> "SetEOF", arg |-> <<TRUE>>]}
               ELSE { [op |-> "SetData", arg |-> <<Chunk(n, k)>>] :
                          k \in {j \in 1..MaxChunk : n + j <= MaxBytes} }
                    \cup {[op |-> "SetEOF", arg |-> <<v>>] : v \in BOOLEAN}
                    \cup {[op |-> "SetSeekable", arg |-> <<v>>] : v \in BOOLEAN})
    ELSE {[op |-> "Read", arg |-> <<size>>] : size \in 1..MaxChunk}
         \cup {[op |-> "Seek", arg |-> a] : a \in SeekArgs}
         \cup {[op |-> "GetSize", arg |-> << >>], [op |-> "GetBytesAvailable", arg |-> << >>]}
         \cup (IF i = "webrtc" THEN {}
               ELSE {[op |-> "IsSeekable", arg |-> << >>], [op |-> "GetPosition", arg |-> << >>]})

\* std::lock_guard<std::mutex> lock(m_mutex): thread t enters locking call c
Lock(t, c) ==
    /\ c.op \in Locking
    /\ running[t] = Idle
    /\ m_mutex = "free"
    /\ m_mutex' = t
    /\ running' = [running EXCEPT ![t] = c]
    /\ supplied' = supplied + (IF c.op \in {"SetData", "AppendData"}
                               THEN Len(c.arg[1]) ELSE 0)
    /\ UNCHANGED <<captureVars, impl, bds, file, result, received>>

\* thread t enters call c of an operation that takes no lock
Enter(t, c) ==
    /\ c.op \notin Locking
    /\ running[t] = Idle
    /\ running' = [running EXCEPT ![t] = c]
    /\ UNCHANGED <<captureVars, impl, bds, m_mutex, file, result, supplied, received,
                   webrtc>>

\* thread t runs the body of its call and returns; a lock_guard releases
Return(t) ==
    /\ running[t] # Idle
    /\ \E r \in {Body(impl, bds, running[t])} :
         /\ bds' = r.b
         /\ result' = [thread |-> t, op |-> running[t].op, arg |-> running[t].arg,
                       ret |-> r.ret, data |-> r.data, pre |-> bds]
    /\ running' = [running EXCEPT ![t] = Idle]
    /\ m_mutex' = IF running[t].op \in Locking THEN "free" ELSE m_mutex
    /\ UNCHANGED <<captureVars, impl, file, supplied>>

\* what dataSource->IsSeekable() can return to the reading thread: the
\* constant false of WebRTCDataSource, or m_seekable, read without the lock,
\* which a SetSeekable in progress on the other thread may or may not have
\* written yet
SeenSeekable ==
    IF impl = "webrtc" THEN {FALSE}
    ELSE {bds.m_seekable}
         \cup {running[t].arg[1] : t \in {u \in Threads : running[u].op = "SetSeekable"}}

\* VideoDemuxer::Seek, the seek callback of the custom IO context, on the
\* reading thread: IsSeekable(), then either the refusal or dataSource->Seek
SeekCallback(offset, whence) ==
    /\ impl \in {"buffer", "webrtc"}
    /\ running["consumer"] = Idle
    /\ \E seekable \in SeenSeekable :
         IF ~seekable
         THEN /\ result' = [thread |-> "consumer", op |-> "SeekCallback",
                            arg |-> <<offset, whence>>, ret |-> AVERROR(ENOSYS),
                            data |-> << >>, pre |-> bds]
              /\ UNCHANGED <<captureVars, impl, bds, m_mutex, running, file, supplied,
                             received, webrtc>>
         ELSE /\ Lock("consumer", [op |-> "Seek", arg |-> <<offset, whence>>])
              /\ UNCHANGED webrtc

\* what the reading thread does with the bytes a call copied out; the
\* WebRTCDataSource members are not touched by a call on the buffer itself
Discards == UNCHANGED <<received, webrtc>>
Collects == received' = received \o result'.data /\ UNCHANGED webrtc

\* a call on the file source
FileCall(op, arg, r) ==
    /\ impl = "file"
    /\ file' = r.b
    /\ result' = [thread |-> "consumer", op |-> op, arg |-> arg, ret |-> r.ret,
                  data |-> r.data, pre |-> file]
    /\ UNCHANGED <<captureVars, impl, bds, m_mutex, running, supplied, received, webrtc>>

\* FileDataSource::Open
FileOpen(fopenOk) == FileCall("Open", <<fopenOk>>, FileDataSource_Open(file, fopenOk))

\* FileDataSource::Close
FileClose ==
    FileCall("Close", << >>, Outcome(FileDataSource_Close(file), "void", << >>))

\* FileDataSource::Read
FileRead(size, ioError) ==
    FileCall("Read", <<size, ioError>>, FileDataSource_Read(file, size, ioError))

\* FileDataSource::Seek
FileSeek(offset, whence) ==
    FileCall("Seek", <<offset, whence>>, FileDataSource_Seek(file, offset, whence))

\* the capture session is not involved
NoCapture ==
    /\ s_initialized = FALSE
    /\ s_d3dDevice = NullDevice
    /\ devRefs = 0
    /\ hw_initialized = FALSE
    /\ s_availableDecoders = << >>
    /\ platform = {}
    /\ media = Plain(1, 0, 0)
    /\ source = [avail |-> 0, eof |-> FALSE]
    /\ m_demuxer = Constructed.m_demuxer
    /\ m_decoder = Constructed.m_decoder
    /\ m_currentFrame = Constructed.m_currentFrame
    /\ m_opened = Constructed.m_opened
    /\ m_eof = Constructed.m_eof
    /\ m_frameCount = Constructed.m_frameCount
    /\ last = NoCall
    /\ delivered = << >>
    /\ origin = 0
    /\ released = FALSE

\* a freshly constructed source of one of the three kinds
InitSources ==
    /\ NoCapture
    /\ impl \in {"file", "buffer", "webrtc"}
    /\ bds = IF impl = "webrtc" THEN NewWebRTCBuffer ELSE NewBufferDataSource
    /\ m_mutex = "free"
    /\ running = [t \in Threads |-> Idle]
    /\ file \in {NewFileDataSource(n) : n \in IF impl = "file" THEN 0..MaxBytes ELSE {0}}
    /\ result = NoResult
    /\ supplied = 0
    /\ received = << >>
    /\ webrtc = NewWebRTCDataSource

SourceCall ==
    \/ \E t \in Threads : \E c \in Calls(impl, t, supplied) :
           impl \in {"buffer", "webrtc"} /\ Lock(t, c) /\ UNCHANGED webrtc
    \/ \E t \in Threads : \E c \in Calls(impl, t, supplied) :
           impl \in {"buffer", "webrtc"} /\ Enter(t, c)
    \/ \E t \in Threads : Return(t) /\ Discards
    \/ \E a \in SeekArgs : SeekCallback(a[1], a[2])
    \/ \E fopenOk \in BOOLEAN : FileOpen(fopenOk)
    \/ FileClose
    \/ \E size \in 1..MaxChunk, ioError \in BOOLEAN : FileRead(size, ioError)
    \/ \E a \in SeekArgs : file.pos <= file.length /\ FileSeek(a[1], a[2])

SpecSources == InitSources /\ [][SourceCall]_vars

\* One thread feeds a WebRTC source's buffer and stops (by marking EOF or by
\* running out of data); the other reads it and never stops reading.
InitStream ==
    /\ NoCapture
    /\ impl = "webrtc"
    /\ bds = NewWebRTCBuffer
    /\ m_mutex = "free"
    /\ running = [t \in Threads |-> Idle]
    /\ file = NewFileDataSource(0)
    /\ result = NoResult
    /\ supplied = 0
    /\ received = << >>
    /\ webrtc = NewWebRTCDataSource

\* OnTrackMessage -> AppendData, until the channel closes
Feed ==
    \E c \in FeedCalls(supplied) : ~bds.m_eof /\ Lock("producer", c) /\ UNCHANGED webrtc

\* OnStateChange(closed) -> SetEOF(true)
MarkEOF ==
    /\ ~bds.m_eof
    /\ Lock("producer", [op |-> "SetEOF", arg |-> <<TRUE>>])
    /\ UNCHANGED webrtc

\* the container engine's read callback
ConsumerRead ==
    \E size \in 1..MaxChunk :
        Lock("consumer", [op |-> "Read", arg |-> <<size>>]) /\ UNCHANGED webrtc

StreamReturn(t) == Return(t) /\ Collects

StreamStep ==
    \/ Feed
    \/ MarkEOF
    \/ ConsumerRead
    \/ \E t \in Threads : StreamReturn(t)

\* a thread inside a call leaves it, and the reading thread keeps calling Read
SpecStream ==
    /\ InitStream /\ [][StreamStep]_vars
    /\ WF_vars(ConsumerRead)
    /\ \A t \in Threads : WF_vars(StreamReturn(t))

----------------------------------------------------------------------------
(* Properties of read() *)

\* C1: read() on a session that is not opened, or whose EOF flag is set,
\* returns false at once: it calls neither the demuxer nor the decoder and
\* leaves the demuxer, the decoder, the current frame, m_opened, m_eof and
\* the frame count as they were.
C1_ReadRefusedAtOnce ==
    [][ (last'.op = "read" /\ (~m_opened \/ m_eof))
        => /\ last'.ret = FALSE
           /\ last'.n = NoCalls
           /\ UNCHANGED sessionVars ]_vars

\* a read() was refused on an opened session at EOF whose decoder still holds
\* packets it could have been pumped for
C1_Witness ==
    /\ last.op = "read" /\ last.ret = FALSE /\ last.pre.eof /\ last.pre.opened
    /\ m_decoder.queue # << >>
    /\ last.n = NoCalls

\* the media C2 speaks of: every packet is a video packet that yields one
\* frame, and the decoder holds back fewer frames than the pump loop can wait
Steady(m) ==
    /\ m.lead = 0 /\ m.faultAt = 0
    /\ m.delay + 1 < MAX_ATTEMPTS

\* the texture (the pts) of the frames of a medium, in stream order
FramesOf(m) == [i \in 1..m.frames |-> VideoPacket(m, i).pts]

\* C2: over a finite stream of N packets, each yielding one frame after a
\* bounded delay, the reads from the start return the N frames in stream
\* order with strictly increasing presentation time, the frames buffered at
\* the drain included; read() returns false only once all N were returned,
\* and that read sets EOF.
C2_AllFramesInOrder ==
    (m_opened /\ m_demuxer.via = "file" /\ Steady(media) /\ origin = 0)
    => /\ Len(delivered) <= media.frames
       /\ delivered = SubSeq(FramesOf(media), 1, Len(delivered))
       /\ \A i \in 1..(Len(delivered) - 1) : delivered[i] < delivered[i + 1]
       /\ (delivered # << >> /\ last.op = "read" /\ last.ret)
          => /\ m_currentFrame.valid
             /\ m_currentFrame.texture = delivered[Len(delivered)]
             /\ FracEq(m_currentFrame.presentationTime,
                       Frac(delivered[Len(delivered)] * media.tb.num, media.tb.den))
       /\ (last.op = "read" /\ ~last.ret)
          => (m_eof /\ Len(delivered) = media.frames)
       /\ m_eof => Len(delivered) = media.frames

\* all frames of the longest stream were read through the deepest decoder
\* delay, and the read after them hit EOF
C2_Witness ==
    /\ m_opened /\ m_demuxer.via = "file" /\ Steady(media) /\ origin = 0
    /\ media.frames = MaxFrames /\ media.delay = MaxDelay
    /\ last.op = "read" /\ ~last.ret /\ ~last.pre.eof /\ m_eof
    /\ Len(delivered) = MaxFrames

----------------------------------------------------------------------------
(* Properties of set() *)

\* C5: a successful set() of a position property seeks the demuxer, then
\* flushes the decoder, then clears the EOF flag; so after read() reached
\* EOF, a successful set(CAP_PROP_POS_FRAMES, 0) makes the next read() pump
\* the decoder again and return a valid frame.
C5_SeekFlushClearEof ==
    [][ /\ (last'.op = "set" /\ last'.ret)
           => /\ last'.arg[1] \in PositionProps
              /\ last'.steps = <<"seek", "flush", "eof">>
              /\ m_decoder'.queue = << >> /\ ~m_decoder'.draining
              /\ ~m_eof'
        /\ (/\ last.op = "set" /\ last.ret /\ last.pre.eof
            /\ last.arg = <<CAP_PROP_POS_FRAMES, Zero>>
            /\ m_demuxer.via = "file" /\ Steady(media)
            /\ last'.op = "read")
           => /\ last'.ret
              /\ last'.n.recv > 0 /\ last'.n.send > 0
              /\ m_currentFrame'.valid
              /\ m_currentFrame'.texture = FramesOf(media)[1] ]_vars

\* set(CAP_PROP_POS_FRAMES, 0) succeeded on a session at EOF whose decoder
\* was drained
C5_Witness ==
    /\ last.op = "set" /\ last.ret /\ last.pre.eof
    /\ last.arg = <<CAP_PROP_POS_FRAMES, Zero>>
    /\ m_demuxer.via = "file" /\ Steady(media) /\ media.delay > 0
    /\ ~m_eof /\ m_decoder.queue = << >>

\* C6: when the demuxer seek fails, set() returns false, the decoder is not
\* flushed, and m_opened, m_eof, the frame count and the current frame keep
\* their values.
C6_FailedSeekChangesNothing ==
    [][ (last'.op = "set" /\ last'.why = "seekfailed")
        => /\ last'.ret = FALSE
           /\ m_decoder' = m_decoder
           /\ UNCHANGED <<m_opened, m_eof, m_frameCount, m_currentFrame>> ]_vars

\* a seek failed while the decoder held packets and a frame was current
C6_Witness ==
    /\ last.op = "set" /\ last.why = "seekfailed" /\ last.ret = FALSE
    /\ m_decoder.queue # << >>
    /\ m_currentFrame.valid

----------------------------------------------------------------------------
(* Properties of release() *)

\* C7: after release(), as long as no open() has succeeded, read() returns
\* false, get() returns 0.0 for every property id, set() returns false for
\* every property id, and isOpened() is false.
C7_ReleasedSessionIsInert ==
    /\ [](released => ~isOpened(Current))
    /\ [][ released
           => /\ last'.op = "read" => last'.ret = FALSE
              /\ last'.op = "get" => last'.arg[2] = Zero
              /\ last'.op = "set" => last'.ret = FALSE ]_vars

\* the frame count of a released session was asked for; the session had
\* been opened over a medium with a positive frame count
C7_Witness ==
    /\ released
    /\ last.op = "get" /\ last.arg = <<CAP_PROP_FRAME_COUNT, Zero>>
    /\ media.duration > 0 /\ media.frames > 0

\* C8: release() drops the current frame, then the decoder, then the
\* demuxer, and clears m_opened, m_eof and the frame count; on a session
\* never opened or already released, or called twice in a row, it leaves the
\* state one call leaves and releases nothing again.
C8_ReleaseOrderAndIdempotence ==
    [][ last'.op = "release"
        => /\ Current' = Constructed
           /\ last'.freed =
                SelectSeq(<<"frame", "decoder", "demuxer">>,
                          LAMBDA x : IF x = "frame" THEN m_currentFrame # NullPtr
                                     ELSE IF x = "decoder" THEN m_decoder # NullPtr
                                     ELSE m_demuxer # NullPtr)
           /\ (last.op = "release" \/ Current = Constructed)
              => (last'.freed = << >> /\ UNCHANGED sessionVars) ]_vars

\* release() destroyed the frame, the decoder and the demuxer of an opened
\* session
C8_Witness ==
    /\ last.op = "release" /\ last.pre.opened
    /\ last.freed = <<"frame", "decoder", "demuxer">>
    /\ Current = Constructed

----------------------------------------------------------------------------
(* Properties of open() *)

\* open() ran past its s_initialized guard on a readable medium of an
\* allow-listed codec, with the decode engine willing
OpenAttempted ==
    /\ last.op = "open" /\ last.why # "uninitialized"
    /\ last.arg[2] = "ok" /\ last.arg[3] = TRUE
    /\ media.codec \in AllowedCodecs

\* C9: open() returns true when Initialize has succeeded, the demuxer opens
\* a medium of an allow-listed codec, GetBestDecoder returns an available
\* backend and the decoder initializes; the backend record is accepted by the
\* session and by the decoder alike.
C9_OpenSucceeds ==
    (OpenAttempted /\ GetBestDecoder(media.codec).available)
    => /\ SessionAccepts(GetBestDecoder(media.codec))
       /\ DecoderAccepts(GetBestDecoder(media.codec))
       /\ last.ret = TRUE
       /\ m_opened

\* open() failed although the probe reported an available backend for the
\* codec
C9_Witness ==
    /\ OpenAttempted /\ GetBestDecoder(media.codec).available
    /\ last.ret = FALSE /\ last.why = "decoder"
    /\ ~m_opened

\* C10: when GetBestDecoder returns the none record, open() returns false,
\* every time, and leaves no usable session: m_opened and m_eof false, frame
\* count 0, no decoder, demuxer or frame kept.
C10_NoBackendNoSession ==
    (OpenAttempted /\ GetBestDecoder(media.codec) = NoneDecoder)
    => /\ last.ret = FALSE
       /\ ~m_opened /\ ~m_eof /\ m_frameCount = 0
       /\ m_decoder = NullPtr /\ m_demuxer = NullPtr /\ m_currentFrame = NullPtr

\* open() failed for want of a backend after the probe had run with a device
C10_Witness ==
    /\ OpenAttempted /\ GetBestDecoder(media.codec) = NoneDecoder
    /\ hw_initialized /\ s_availableDecoders # << >>
    /\ last.ret = FALSE /\ last.why = "decoder"

\* C11: open() called before VideoCapture::Initialize has succeeded returns
\* false, creates no demuxer and no decoder, and leaves the session not
\* opened.
C11_OpenBeforeInitialize ==
    [][ (last'.op = "open" /\ ~s_initialized)
        => /\ last'.ret = FALSE
           /\ m_demuxer' = NullPtr /\ m_decoder' = NullPtr
           /\ UNCHANGED sessionVars
           /\ ~m_opened' ]_vars

\* open() was refused on a readable medium of an allow-listed codec, after
\* the capability probe had found a backend, for want of Initialize
C11_Witness ==
    /\ last.op = "open" /\ last.ret = FALSE /\ last.why = "uninitialized"
    /\ last.arg[2] = "ok" /\ last.arg[3] = TRUE
    /\ media.codec \in AllowedCodecs
    /\ GetBestDecoder(media.codec).available
    /\ ~s_initialized

----------------------------------------------------------------------------
(* Properties of VideoCapture::Initialize *)

\* C12: Initialize is idempotent process-wide: with a null device before
\* any success it returns false and leaves the library uninitialized; once a
\* call has succeeded every later call, whatever its argument, returns true
\* without running the capability probe and without another reference on
\* the device, so the render device is referenced exactly once.
C12_InitializeIdempotent ==
    /\ [](/\ devRefs = (IF s_initialized THEN 1 ELSE 0)
          /\ s_initialized <=> s_d3dDevice # NullDevice)
    /\ [][ last'.op = "Initialize"
           => /\ (~s_initialized /\ last'.arg[1] = NullDevice)
                 => (last'.ret = FALSE /\ ~s_initialized'
                     /\ UNCHANGED <<procVars, hwVars>>)
              /\ (~s_initialized /\ last'.arg[1] # NullDevice)
                 => (last'.ret = TRUE /\ s_initialized'
                     /\ s_d3dDevice' = last'.arg[1])
              /\ s_initialized
                 => (last'.ret = TRUE /\ UNCHANGED <<procVars, hwVars>>) ]_vars

\* Initialize was called with another device after it had succeeded and
\* after the capability cache had been cleaned up
C12_Witness ==
    /\ last.op = "Initialize" /\ last.ret = TRUE /\ last.why = "already"
    /\ last.arg[1] # NullDevice /\ last.arg[1] # s_d3dDevice
    /\ ~hw_initialized
    /\ devRefs = 1

\* the frame count open() computes for the medium: duration times frame
\* rate, rounded down, when both are positive
CountFor(m) ==
    IF m.duration > 0
    THEN (m.duration * (IF m.avgFps # 0 THEN m.avgFps
                        ELSE IF m.rFps # 0 THEN m.rFps ELSE 25)) \div AV_TIME_BASE
    ELSE 0

----------------------------------------------------------------------------
(* Properties of get() *)

\* C14: on an opened session get(CAP_PROP_FRAME_COUNT) is the duration
\* times the frame rate rounded down when both are positive, and 0
\* otherwise; it is fixed at open() and read() and set() do not change it.
C14_FrameCount ==
    m_opened
    => /\ m_frameCount = CountFor(media)
       /\ GetValue(Current, CAP_PROP_FRAME_COUNT) = Frac(CountFor(media), 1)
       /\ (last.op = "get" /\ last.arg[1] = CAP_PROP_FRAME_COUNT)
          => last.arg[2] = Frac(CountFor(media), 1)

\* the frame count was asked for after reads and a seek, on a medium whose
\* duration times frame rate is not a whole number
C14_Witness ==
    /\ m_opened
    /\ last.op = "get" /\ last.arg[1] = CAP_PROP_FRAME_COUNT
    /\ (media.duration * media.avgFps) % AV_TIME_BASE # 0
    /\ last.arg[2] = Frac(1, 1)
    /\ m_currentFrame.valid

----------------------------------------------------------------------------
(* Properties of VideoDecoder *)

\* the last call is a ReceiveFrame on an initialized decoder
ReceiveFrameReturned ==
    last.op = "ReceiveFrame" /\ m_decoder.m_initialized /\ m_decoder.m_codecContext

\* C21: ReceiveFrame on an initialized decoder returns success with
\* out.valid = true exactly when a frame was received and extracted, success
\* with out.valid = false when the decoder needs more packets or has reached
\* end of stream, and failure only on a genuine decode or extraction error;
\* whenever it does not deliver a frame, out.valid is false afterwards.
C21_ReceiveFrameOutcomes ==
    ReceiveFrameReturned =>
        /\ (last.ret /\ m_currentFrame.valid) <=> last.why = "OK"
        /\ (last.ret /\ ~m_currentFrame.valid) <=> last.why \in {"EAGAIN", "EOF"}
        /\ ~last.ret <=> last.why \in {"EINVAL", "extract"}
        /\ last.why # "OK" => ~m_currentFrame.valid

\* a ReceiveFrame that found nothing to deliver, after the decoder had
\* delivered its pictures, left the frame invalid
C21_Witness ==
    /\ ReceiveFrameReturned
    /\ last.why \in {"EAGAIN", "EOF"}
    /\ last.ret /\ ~m_currentFrame.valid
    /\ m_currentFrame.texture # NewDecodedFrame.texture

\* C20: SendPacket on an initialized decoder returns false only on a
\* genuine submission error: when the decode engine answers "try again"
\* (EAGAIN) or end of stream, SendPacket returns true.
C20_SendPacketSucceedsOnEagain ==
    (last.op = "SendPacket" /\ last.why \in {"EAGAIN", "EOF"})
    => last.ret = TRUE

\* SendPacket returned false on a decoder that holds a picture to be
\* received and was offered another packet
C20_Witness ==
    /\ last.op = "SendPacket" /\ last.why = "EAGAIN" /\ last.ret = FALSE
    /\ m_decoder.m_initialized
    /\ FrameReady(m_decoder) /\ ~m_decoder.draining

----------------------------------------------------------------------------
(* Properties of the data sources *)

\* the last call completed is a Read on a buffer source
BufferReadReturned == impl \in {"buffer", "webrtc"} /\ result.op = "Read"

\* C16: a streaming buffer source never reports EOF before EOF has been
\* marked.  A Read at position >= length returns the retry signal while the
\* EOF flag is unset and the EOF signal once SetEOF(true) has set it; a Read
\* at position < length returns between 1 and min(size, length - position)
\* bytes and advances the position by exactly that count.
C16_ReadSignals ==
    BufferReadReturned =>
        LET b == result.pre
            size == result.arg[1]
            length == Len(b.m_buffer)
        IN /\ (b.m_position >= length /\ ~b.m_eof) => result.ret = AVERROR(EAGAIN)
           /\ (b.m_position >= length /\ b.m_eof) => result.ret = AVERROR_EOF
           /\ result.ret = AVERROR_EOF => b.m_eof
           /\ b.m_position < length
                => /\ result.ret >= 1
                   /\ result.ret <= Min(size, length - b.m_position)
                   /\ Len(result.data) = result.ret
                   /\ bds.m_position = b.m_position + result.ret
           /\ b.m_position >= length => bds.m_position = b.m_position

\* a Read past the last byte of a fed buffer answered "retry" because EOF was
\* not marked, and the buffer still is not marked
C16_Witness ==
    /\ BufferReadReturned
    /\ result.ret = AVERROR(EAGAIN)
    /\ result.pre.m_position >= Len(result.pre.m_buffer)
    /\ result.pre.m_position > 0
    /\ ~result.pre.m_eof

\* s is an initial segment of t
IsPrefix(s, t) == Len(s) <= Len(t) /\ s = SubSeq(t, 1, Len(s))

\* the chunks handed to AppendData so far, concatenated in append order
Appended == Chunk(0, supplied)

\* C17: with one thread calling AppendData and one calling Read concurrently
\* (no Seek, SetData or Clear), under every interleaving the bytes returned
\* by the successive Reads, concatenated, are a prefix of the appended chunks
\* concatenated in append order (nothing lost, duplicated or reordered), and
\* if the reader keeps reading after the feeder stops, every appended byte
\* is eventually delivered.
C17_StreamIsFifo ==
    /\ [](IsPrefix(received, Appended))
    /\ \A k \in 1..MaxBytes : (supplied >= k) ~> (Len(received) >= k)

\* every byte fed has been delivered, the last of them by a Read that came
\* after earlier Reads had delivered the first ones
C17_Witness ==
    /\ impl = "webrtc"
    /\ supplied = MaxBytes
    /\ received = Appended
    /\ result.op = "Read"
    /\ result.data # << >>
    /\ Len(result.data) < Len(received)

\* C18: every BufferDataSource operation (Read, Seek, GetSize, IsSeekable,
\* SetData, AppendData, Clear, SetSeekable, SetEOF, GetBytesAvailable,
\* GetPosition) accesses the fields only while holding the instance's one
\* mutex, so no two threads are ever inside an operation, at the buffer
\* contents, the position, the seekable flag or the EOF flag, at once.
C18_EveryOperationUnderMutex ==
    /\ \A t \in Threads : running[t] # Idle => m_mutex = t
    /\ \A t, u \in Threads : (t # u /\ running[t] # Idle) => running[u] = Idle

\* one thread is writing m_seekable while the other is reading it, and
\* nobody holds the mutex
C18_Witness ==
    /\ running["producer"].op = "SetSeekable"
    /\ running["consumer"].op = "IsSeekable"
    /\ running["producer"].arg[1] # bds.m_seekable
    /\ m_mutex = "free"

\* the last call completed is a Read that found the source at its true end:
\* an open file with nothing left and no I/O error, or a buffer read to its
\* last byte with EOF marked
ReadAtTrueEnd ==
    /\ result.op = "Read"
    /\ IF impl = "file"
       THEN result.pre.m_file /\ ~result.arg[2] /\ result.pre.pos >= result.pre.length
       ELSE result.pre.m_eof /\ result.pre.m_position >= Len(result.pre.m_buffer)

\* a negative Read result that stands for an error or for "no data yet"
ErrorOrRetry ==
    IF impl = "file"
    THEN result.ret = -1 /\ (~result.pre.m_file \/ result.arg[2])
    ELSE result.ret = AVERROR(EAGAIN) /\ ~result.pre.m_eof

\* the Read result convention of IDataSource, on the last Read completed
FollowsReadConvention ==
    /\ ReadAtTrueEnd => result.ret = 0
    /\ result.ret > 0 => Len(result.data) = result.ret
    /\ result.ret < 0 => ErrorOrRetry
    /\ result.ret # AVERROR_EOF

\* the file-backed source follows the convention
FileReadFollowsConvention == (impl = "file" /\ result.op = "Read") => FollowsReadConvention

\* C19: every data source (file-backed, buffer-backed, WebRTC-fed) follows
\* the interface's Read result convention: a positive count of bytes read,
\* exactly 0 at true end of data, and a negative value only for an error or
\* the "no data yet" retry signal, never for EOF.
C19_ReadResultConvention == result.op = "Read" => FollowsReadConvention

\* a WebRTC-fed source, read to its last byte after EOF was marked, answered
\* a negative value
C19_Witness ==
    /\ impl = "webrtc"
    /\ ReadAtTrueEnd
    /\ result.pre.m_position > 0
    /\ result.ret < 0

----------------------------------------------------------------------------
(* Properties of HardwareDecoder *)

\* positions of the cached records that are available and support the codec
Eligible(codecId) ==
    { i \in DOMAIN s_availableDecoders :
        s_availableDecoders[i].available /\ SupportsCodec(s_availableDecoders[i], codecId) }

\* C22: GetBestDecoder(codec) returns the first record of the cached backend
\* list that is available and supports the codec, and the "none" sentinel
\* (type none, available = false) when no record qualifies, when the probe
\* has not been initialized, and after Cleanup().
C22_GetBestDecoder ==
    \A codecId \in Codecs :
        /\ (hw_initialized /\ Eligible(codecId) # {})
             => \E i \in Eligible(codecId) :
                  /\ \A k \in Eligible(codecId) : i <= k
                  /\ GetBestDecoder(codecId) = s_availableDecoders[i]
        /\ (~hw_initialized \/ Eligible(codecId) = {} \/ last.op = "HwCleanup")
             => /\ GetBestDecoder(codecId).type = "NONE"
                /\ GetBestDecoder(codecId).available = FALSE

\* the probe has run on a device whose backend cannot be created: the cache
\* holds a record, but an unavailable one
C22_Witness ==
    /\ hw_initialized
    /\ Len(s_availableDecoders) = 1
    /\ ~s_availableDecoders[1].available
    /\ GetBestDecoder("H264") = NoneDecoder

\* C23: the capability set is probed at most once between Cleanup() calls.
\* HardwareDecoder::Initialize on an initialized probe returns true without
\* probing and leaves the cached list unchanged; Cleanup() empties the list
\* and resets the initialized flag; the next Initialize() probes again.
C23_ProbedOncePerCleanup ==
    [][ /\ (last'.op = "HwInitialize" /\ hw_initialized)
           => /\ last'.ret = TRUE /\ last'.why = "already"
              /\ UNCHANGED hwVars
        /\ (last'.op = "HwInitialize" /\ ~hw_initialized)
           => /\ last'.ret = TRUE /\ last'.why = "probed"
              /\ hw_initialized'
              /\ s_availableDecoders' = DetectHardwareDecoders(last'.arg[1])
        /\ last'.op = "HwCleanup"
           => s_availableDecoders' = << >> /\ ~hw_initialized' ]_vars

\* a second HardwareDecoder::Initialize, given no device, found the probe
\* done and kept the record the first one cached
C23_Witness ==
    /\ last.op = "HwInitialize" /\ last.why = "already"
    /\ last.arg[1] = NullDevice
    /\ s_availableDecoders # << >>

----------------------------------------------------------------------------
(* Properties of VideoDemuxer *)

\* the container packets at positions from+1 .. to all belong to streams
\* other than the selected one
OthersOnly(from, to) ==
    \A k \in (from + 1)..to : PacketAt(media, k).stream # m_demuxer.m_videoStreamIndex

\* C24: ReadFrame surfaces only packets whose stream index equals the
\* selected video stream: every packet of another stream is freed and
\* skipped, the surfaced packets are a subsequence of the container's
\* packets in their original order, and ReadFrame returns false as soon as
\* the underlying source signals EOF or an error, or when no stream is
\* selected.
C24_ReadFrameFilters ==
    last.op = "ReadFrame" =>
        LET from == last.arg[1]
            packet == last.arg[2]
            to == m_demuxer.pos
            freed == last.steps[1]
        IN /\ last.ret
                => /\ m_demuxer.m_videoStreamIndex >= 0
                   /\ packet.stream = m_demuxer.m_videoStreamIndex
                   /\ to > from
                   /\ packet = PacketAt(media, to)
                   /\ OthersOnly(from, to - 1)
                   /\ freed = to - from - 1
           /\ (~m_demuxer.m_formatContext \/ m_demuxer.m_videoStreamIndex < 0)
                => ~last.ret /\ last.why = "closed" /\ freed = 0
           /\ (~last.ret /\ last.why # "closed")
                => /\ last.why \in {"EOF", "EAGAIN"}
                   /\ to = Limit(m_demuxer)
                   /\ OthersOnly(from, to)
                   /\ freed = to - from

\* a ReadFrame that started past the first packet skipped and freed a packet
\* of another stream and handed back the video packet after it
C24_Witness ==
    /\ last.op = "ReadFrame" /\ last.ret
    /\ last.arg[1] > 0
    /\ last.steps[1] >= 1
    /\ last.arg[2].stream = 0

\* the getters and operations of a demuxer answer as on a closed demuxer
AnswersAsClosed(dmx) ==
    /\ ~ReadFrame(dmx).ok
    /\ ~SeekToTime(dmx, Frac(0, 1)).ok
    /\ \A n \in 0..MaxFrames : ~SeekToFrame(dmx, n).ok
    /\ GetDuration(dmx) = Zero
    /\ GetFrameRate(dmx) = Zero
    /\ GetWidth(dmx) = 0 /\ GetHeight(dmx) = 0
    /\ GetCodecID(dmx) = "NONE"
    /\ GetTimeBase(dmx) = [num |-> 0, den |-> 1]

C26_ReadPacketMapping ==
    result.op = "Read" =>
        /\ result.ret > 0 => ReadPacket(result.ret) = result.ret
        /\ result.ret = 0 => ReadPacket(result.ret) = AVERROR_EOF
        /\ result.ret = AVERROR(EAGAIN) => ReadPacket(result.ret) = AVERROR(EAGAIN)
        /\ (result.ret < 0 /\ result.ret # AVERROR(EAGAIN))
             => ReadPacket(result.ret) = AVERROR(EIO)

\* a file source failed to read and answered -1, which the callback handed
\* on as it was
C26_Witness ==
    /\ impl = "file"
    /\ result.op = "Read"
    /\ result.pre.m_file /\ result.arg[2]
    /\ result.ret = -1
    /\ ReadPacket(result.ret) = -1

----------------------------------------------------------------------------
(* WebRTCDataSource used on its own.  The transport's thread delivers the  *)
(* track's messages and the peer connection's state changes as callbacks;  *)
(* the application's thread reads and, at some point, calls Close().       *)

\* variant: only the Closed state marks EOF
ClosingStatesClosedOnly == {"Closed"}

\* OnStateChange: the states of the switch that set the EOF flag
ClosingStates == {"Disconnected", "Failed", "Closed"}

\* rtc::PeerConnection::State
ConnectionStates == {"New", "Connecting", "Connected", "Disconnected", "Failed", "Closed"}

\* the state changes a peer connection goes through
StateChanges ==
    {<<"New", "Connecting">>, <<"New", "Closed">>,
     <<"Connecting", "Connected">>, <<"Connecting", "Failed">>,
     <<"Connecting", "Closed">>,
     <<"Connected", "Disconnected">>, <<"Connected", "Failed">>, <<"Connected", "Closed">>,
     <<"Disconnected", "Connected">>, <<"Disconnected", "Failed">>,
     <<"Disconnected", "Closed">>, <<"Failed", "Closed">>}

\* Close() has been entered (its Clear is running) or has returned
CloseCalled == running["consumer"].op = "Clear" \/ ~webrtc.m_initialized

\* OnTrackMessage(message) with a unit of n bytes, n = 0 for an empty one
OnTrackMessage(n) ==
    /\ webrtc.state = "Connected"
    /\ ~CloseCalled
    /\ supplied + n <= MaxBytes
    /\ IF n = 0
       THEN /\ running["producer"] = Idle
            /\ result' = [thread |-> "producer", op |-> "OnTrackMessage",
                          arg |-> << << >> >>, ret |-> "void", data |-> << >>,
                          pre |-> bds]
            /\ UNCHANGED <<captureVars, impl, bds, m_mutex, running, file, supplied,
                           received, webrtc>>
       ELSE /\ Lock("producer", [op |-> "AppendData", arg |-> <<Chunk(supplied, n)>>])
            /\ UNCHANGED webrtc

\* the peer connection changes to `state` and OnStateChange(state) runs; after
\* Close() only the change to Closed that close() brings about can follow
OnStateChange(state) ==
    /\ <<webrtc.state, state>> \in StateChanges
    /\ CloseCalled => state = "Closed"
    /\ IF state \in ClosingStates
       THEN /\ webrtc' = [webrtc EXCEPT !.state = state, !.m_connected = FALSE]
            /\ Lock("producer", [op |-> "SetEOF", arg |-> <<TRUE>>])
       ELSE /\ running["producer"] = Idle
            /\ webrtc' = [webrtc EXCEPT !.state = state,
                                        !.m_connected = (state = "Connected") \/ @]
            /\ UNCHANGED <<captureVars, impl, bds, m_mutex, running, file, result,
                           supplied, received>>

\* WebRTCDataSource::Read from the application's thread
WebRTCRead ==
    \E size \in 1..MaxChunk :
        Lock("consumer", [op |-> "Read", arg |-> <<size>>]) /\ UNCHANGED webrtc

\* WebRTCDataSource::Close up to its m_buffer->Clear(): the track and the
\* peer connection are closed and dropped
WebRTCClose ==
    /\ webrtc.m_initialized
    /\ Lock("consumer", [op |-> "Clear", arg |-> << >>])
    /\ UNCHANGED webrtc

\* a thread returns from its call on the buffer; returning from Clear, Close()
\* goes on to reset m_connected and m_initialized
WebRTCReturn(t) ==
    /\ Return(t)
    /\ UNCHANGED received
    /\ webrtc' = IF t = "consumer" /\ running[t].op = "Clear"
                 THEN [webrtc EXCEPT !.m_connected = FALSE, !.m_initialized = FALSE]
                 ELSE webrtc

\* a WebRTCDataSource after a successful Initialize()
InitWebRTC ==
    /\ NoCapture
    /\ impl = "webrtc"
    /\ bds = NewWebRTCBuffer
    /\ m_mutex = "free"
    /\ running = [t \in Threads |-> Idle]
    /\ file = NewFileDataSource(0)
    /\ result = NoResult
    /\ supplied = 0
    /\ received = << >>
    /\ webrtc = [NewWebRTCDataSource EXCEPT !.m_initialized = TRUE]

WebRTCStep ==
    \/ \E n \in 0..MaxChunk : OnTrackMessage(n)
    \/ \E state \in ConnectionStates : OnStateChange(state)
    \/ WebRTCRead
    \/ WebRTCClose
    \/ \E t \in Threads : WebRTCReturn(t)

SpecWebRTC == InitWebRTC /\ [][WebRTCStep]_vars

----------------------------------------------------------------------------
(* Properties of WebRTCDataSource *)

\* the units handed over by the track callback whose AppendData has returned
Delivered ==
    IF running["producer"].op = "AppendData"
    THEN Chunk(0, supplied - Len(running["producer"].arg[1]))
    ELSE Appended

\* a closing state has been reported and its OnStateChange has returned
ClosureReported == webrtc.state \in {"Disconnected", "Failed", "Closed"}
                   /\ running["producer"] = Idle

\* the last call completed is a Read that found the buffer read to its end
ReadAtEndReturned ==
    /\ BufferReadReturned
    /\ result.pre.m_position >= Len(result.pre.m_buffer)

\* C27: the WebRTC data source appends every non-empty unit delivered by the
\* track callback to its buffer in delivery order, and when the connection
\* state becomes Disconnected, Failed or Closed it sets the buffer's EOF
\* flag, so that the next Read at the end of the buffer returns EOF rather
\* than retry.
C27_UnitsAppendedEofMarked ==
    /\ ~CloseCalled => bds.m_buffer = Delivered
    /\ result.op = "AppendData"
         => bds.m_buffer = result.pre.m_buffer \o result.arg[1]
    /\ result.op = "OnTrackMessage" => bds = result.pre
    /\ (ClosureReported /\ ~CloseCalled)
         => /\ bds.m_eof
            /\ ReadAtEndReturned => result.ret = AVERROR_EOF

\* the connection failed after units had been delivered and read, and the
\* Read that followed at the end of the buffer answered EOF
C27_Witness ==
    /\ webrtc.state = "Failed"
    /\ ClosureReported /\ ~CloseCalled
    /\ supplied > 0
    /\ ReadAtEndReturned
    /\ result.pre.m_position = supplied
    /\ result.ret = AVERROR_EOF

\* C28: each read() ends after at most MAX_ATTEMPTS iterations of the pump
\* loop whatever the decoder and the demuxer answer: it reads and submits at
\* most MAX_ATTEMPTS packets, the drain signal included, and makes at most
\* MAX_ATTEMPTS + 1 ReceiveFrame calls.
C28_ReadIsBounded ==
    last.op = "read"
    => /\ last.n.read <= MAX_ATTEMPTS
       /\ last.n.send + last.n.drain <= MAX_ATTEMPTS
       /\ last.n.send <= last.n.read /\ last.n.drain <= 1
       /\ last.n.recv <= MAX_ATTEMPTS + 1
       /\ last.n.recv <= last.n.read + 1

\* a read() that submitted MAX_ATTEMPTS packets and gave up
C28_Witness ==
    /\ last.op = "read" /\ last.why = "exhausted"
    /\ last.n.send = MAX_ATTEMPTS /\ last.n.recv = MAX_ATTEMPTS

\* a read() whose source ended in the last iteration: the drain signal
\* followed MAX_ATTEMPTS - 1 packets and the final ReceiveFrame was call
\* number MAX_ATTEMPTS + 1
C28_WitnessDrained ==
    /\ last.op = "read" /\ ~last.ret
    /\ last.n.send = MAX_ATTEMPTS - 1 /\ last.n.drain = 1
    /\ last.n.recv = MAX_ATTEMPTS + 1

\* C29: after the WebRTC source has been closed (Close() called, with the
\* state callback for closed / failed / disconnected arriving before or
\* after it in any interleaving), the consumer's Read at the end of the
\* buffer returns EOF and not the retry signal.
C29_ClosedSourceReadsEof ==
    (ReadAtEndReturned /\ ~webrtc.m_initialized /\ ClosureReported)
        => result.ret = AVERROR_EOF

\* the connection was Closed and its callback had marked EOF before Close()
\* was called; the Read after Close() answered "retry"
C29_Witness ==
    /\ ReadAtEndReturned
    /\ ~webrtc.m_initialized
    /\ webrtc.state = "Closed" /\ running["producer"] = Idle
    /\ ~bds.m_eof
    /\ result.ret = AVERROR(EAGAIN)

----------------------------------------------------------------------------
(* Properties of VideoCapture::Initialize *)

\* C30: a successful VideoCapture::Initialize(device) runs the capability
\* probe against the device it was given: if the platform backend can be
\* created on that device, the cache afterwards holds an available record
\* and GetBestDecoder, for a codec the backend supports, does not return
\* the none sentinel.
C30_InitializeProbesDevice ==
    (/\ last.op = "Initialize" /\ last.ret /\ last.why = "done"
     /\ TestD3D11VAAvailability(last.arg[1]))
    => /\ \E i \in DOMAIN s_availableDecoders : s_availableDecoders[i].available
       /\ \A codecId \in {"H264", "HEVC", "AV1"} : GetBestDecoder(codecId) # NoneDecoder

\* Initialize(device) succeeded on a platform whose backend can be created,
\* the probe is marked done, and the cache is empty
C30_Witness ==
    /\ last.op = "Initialize" /\ last.ret /\ last.why = "done"
    /\ last.arg[1] # NullDevice /\ platform # {}
    /\ s_initialized /\ hw_initialized
    /\ s_availableDecoders = << >>
    /\ GetBestDecoder("H264") = NoneDecoder

----------------------------------------------------------------------------
(* Properties of the codec-support predicate *)

\* C31: GetBestDecoder(codec) returns an available backend only for a codec
\* the probe found to report that backend among its hardware
\* configurations; when the probe found it for H.264 only, the answers for
\* H.265 and AV1 are the none sentinel.
C31_SupportReflectsProbe ==
    \A codecId \in Codecs :
        GetBestDecoder(codecId).available => codecId \in platform

\* the probe ran on a device of a machine whose H.264 decoder alone reports
\* D3D11VA, and GetBestDecoder answers with the backend for H.265 and AV1
C31_Witness ==
    /\ hw_initialized
    /\ platform = {"H264"}
    /\ last.op = "HwInitialize" /\ last.why = "probed" /\ last.arg[1] # NullDevice
    /\ GetBestDecoder("H264").available
    /\ GetBestDecoder("HEVC").available /\ GetBestDecoder("HEVC").type = "D3D11VA"
    /\ GetBestDecoder("AV1").available

----------------------------------------------------------------------------
(* Properties of the streaming buffer's EOF flag *)

\* C32: the streaming buffer's EOF flag is set once: after it has been set
\* no operation clears it again, so every later Read at or past the end of
\* the buffer returns EOF and never the retry signal.
C32_EofSetOnce ==
    [][ /\ bds.m_eof => bds'.m_eof
        /\ (bds.m_eof /\ result'.op = "Read"
            /\ result'.pre.m_position >= Len(result'.pre.m_buffer))
           => result'.ret = AVERROR_EOF ]_vars

\* Clear() has returned on a buffer that was marked EOF, and the flag is
\* false again
C32_Witness ==
    /\ impl \in {"buffer", "webrtc"}
    /\ result.op = "Clear"
    /\ result.pre.m_eof
    /\ ~bds.m_eof

----------------------------------------------------------------------------
(* Properties of VideoDecoder::Flush *)

\* C33: Flush() discards the buffered decode state without reinitializing:
\* the decoder keeps its initialized flag, its decode context and its
\* configuration; a decoder put into draining by a null packet accepts input
\* again after Flush, so a real packet sent next is accepted and the
\* picture it carries is what the next ReceiveFrame delivers; Flush on a
\* decoder without a decode context changes nothing.
C33_FlushWithoutReinit ==
    [][ /\ last'.op = "Flush"
           => /\ m_decoder'.m_initialized = m_decoder.m_initialized
              /\ m_decoder'.m_codecContext = m_decoder.m_codecContext
              /\ m_decoder'.m_decoderInfo = m_decoder.m_decoderInfo
              /\ m_decoder'.m_streamTimebase = m_decoder.m_streamTimebase
              /\ m_decoder.m_codecContext
                   => m_decoder'.queue = << >> /\ ~m_decoder'.draining
              /\ ~m_decoder.m_codecContext => m_decoder' = m_decoder
        /\ (/\ last.op = "Flush" /\ m_decoder.m_initialized
            /\ last'.op = "SendPacket" /\ last'.arg[1] > 0
            /\ Submitted(last'.arg[1]).kind = "frame")
           => /\ last'.ret /\ last'.why = "OK"
              /\ m_decoder'.queue = << Submitted(last'.arg[1]) >>
        /\ (/\ last.op = "SendPacket" /\ last.ret /\ last.why = "OK" /\ last.arg[1] > 0
            /\ Len(m_decoder.queue) = 1 /\ m_decoder.delay = 0
            /\ Submitted(last.arg[1]).kind = "frame"
            /\ last'.op = "ReceiveFrame")
           => /\ last'.ret /\ m_currentFrame'.valid
              /\ m_currentFrame'.texture = Submitted(last.arg[1]).pts ]_vars

\* Flush has returned on an initialized decoder that was draining with a
\* picture still buffered: the picture is gone and the decoder takes input
C33_Witness ==
    /\ last.op = "Flush" /\ last.why = "draining"
    /\ m_decoder.m_initialized /\ m_decoder.m_codecContext
    /\ ~m_decoder.draining /\ m_decoder.queue = << >>
    /\ SendPacket(m_decoder, Submitted(1)).ok

----------------------------------------------------------------------------
(* Properties of the demuxer's native resources *)

\* the native objects a demuxer holds, in the order Reset releases them
Held(dmx) ==
    SelectSeq(<<"format", "buffer", "avio">>, LAMBDA kind : dmx.heap[kind] > 0)

Kinds(freed) == [i \in DOMAIN freed |-> freed[i].kind]

Rank(kind) == CASE kind = "format" -> 1 [] kind = "buffer" -> 2 [] kind = "avio" -> 3

\* parse context before staging buffer before bridge context, each at most once
InReleaseOrder(kinds) ==
    \A i, j \in DOMAIN kinds : i < j => Rank(kinds[i]) < Rank(kinds[j])

\* every live object is the one its member points to, and there is at most
\* one of each kind
NothingLeaked(dmx) ==
    /\ dmx.heap.format = (IF dmx.m_formatContext THEN 1 ELSE 0)
    /\ dmx.heap.avio = (IF dmx.m_ioContext THEN 1 ELSE 0)
    /\ dmx.heap.buffer = (IF dmx.m_ioContext /\ dmx.m_ioBuffer THEN 1 ELSE 0)

----------------------------------------------------------------------------
(* Properties of Seek on a buffer source *)

\* the position a completed Seek(offset, whence) asked for
SeekTarget ==
    IF result.arg[2] = SEEK_SET THEN result.arg[1]
    ELSE IF result.arg[2] = SEEK_CUR THEN result.pre.m_position + result.arg[1]
    ELSE Len(result.pre.m_buffer) + result.arg[1]

\* what a completed Seek on a buffer source returned and did to the cursor
SeekFollowsContract ==
    (impl \in {"buffer", "webrtc"} /\ result.op = "Seek")
       => /\ ~result.pre.m_seekable => result.ret = AVERROR(ENOSYS)
          /\ (/\ result.pre.m_seekable
              /\ result.arg[2] \notin {SEEK_SET, SEEK_CUR, SEEK_END, AVSEEK_SIZE})
             => result.ret = AVERROR(EINVAL)
          /\ (/\ result.pre.m_seekable
              /\ result.arg[2] \in {SEEK_SET, SEEK_CUR, SEEK_END})
             => IF SeekTarget < 0 \/ SeekTarget > Len(result.pre.m_buffer)
                THEN result.ret = AVERROR(EINVAL)
                ELSE result.ret = SeekTarget /\ bds.m_position = SeekTarget
          /\ result.ret < 0 => bds = result.pre
          /\ bds.m_buffer = result.pre.m_buffer

\* C35: Seek on a buffer configured non-seekable returns the not-supported
\* error; on a seekable buffer an invalid whence or a target outside
\* [0, length] is rejected with an error; in every error case the read
\* position is unchanged, and on success the new position is the returned
\* value computed from offset under SEEK_SET, SEEK_CUR or SEEK_END.  The
\* demuxer's seek callback returns not-supported without calling Seek when
\* IsSeekable() is false.
C35_SeekErrorsKeepPosition ==
    [][ /\ SeekFollowsContract'
        /\ (/\ result'.op = "SeekCallback"
            /\ ~(/\ result.op = "SeekCallback" /\ result.arg = result'.arg
                 /\ result.pre = result'.pre))
           => /\ result'.ret = AVERROR(ENOSYS)
              /\ UNCHANGED <<bds, running, m_mutex>>
              /\ running["consumer"] = Idle
              /\ impl = "webrtc" \/ ~bds.m_seekable
                 \/ running["producer"].op = "SetSeekable" ]_vars

\* a Seek past the end of a seekable buffer with the cursor at its end was
\* rejected and the cursor stayed
C35_Witness ==
    /\ impl = "buffer" /\ result.op = "Seek"
    /\ result.pre.m_seekable
    /\ result.arg = <<1, SEEK_CUR>>
    /\ result.pre.m_position = Len(result.pre.m_buffer) /\ result.pre.m_position > 0
    /\ result.ret = AVERROR(EINVAL)
    /\ bds.m_position = result.pre.m_position

\* the seek callback refused on a buffer made non-seekable: no Seek was begun
C35_WitnessCallback ==
    /\ impl = "buffer" /\ result.op = "SeekCallback"
    /\ ~bds.m_seekable /\ running["consumer"] = Idle
    /\ result.ret = AVERROR(ENOSYS)

----------------------------------------------------------------------------
(* Properties of the pump loop on a decode error *)

----------------------------------------------------------------------------
(* Invariants of the capture session *)

\* C37: in every reachable state of a capture session, opened implies that
\* the demuxer, an initialized decoder and the current-frame holder all
\* exist; the EOF flag is set only while the session is opened; and a
\* session that is not opened has frame count 0.
C37_SessionInvariant ==
    /\ m_opened
       => /\ m_demuxer # NullPtr /\ m_demuxer.m_formatContext
          /\ m_decoder # NullPtr /\ m_decoder.m_initialized
          /\ m_currentFrame # NullPtr
    /\ m_eof => m_opened
    /\ ~m_opened => m_frameCount = 0

\* release() has run on a session that had read to its end: nothing is left
\* of the session, EOF flag included
C37_Witness ==
    /\ last.op = "release" /\ last.pre.opened /\ last.pre.eof
    /\ ~m_opened /\ ~m_eof /\ m_frameCount = 0
    /\ m_demuxer = NullPtr /\ m_decoder = NullPtr /\ m_currentFrame = NullPtr

\* an opened session at EOF: the three objects are still there
C37_WitnessOpened ==
    /\ m_opened /\ m_eof /\ m_frameCount > 0
    /\ last.op = "read" /\ ~last.ret
    /\ m_decoder.m_initialized

----------------------------------------------------------------------------
(* Invariants of BufferDataSource *)

\* C38: in every reachable state of a BufferDataSource, under any
\* interleaving of Read, Seek, SetData, AppendData, Clear and SetEOF,
\* 0 <= read position <= buffer length; hence GetBytesAvailable (length -
\* position) never underflows and Read never copies from beyond the buffer.
C38_PositionWithinBuffer ==
    impl \in {"buffer", "webrtc"}
    => /\ 0 <= bds.m_position /\ bds.m_position <= Len(bds.m_buffer)
       /\ result.op = "GetBytesAvailable"
          => /\ result.ret >= 0
             /\ result.ret = Len(result.pre.m_buffer) - result.pre.m_position
       /\ (result.op = "Read" /\ result.ret > 0)
          => /\ result.pre.m_position + result.ret <= Len(result.pre.m_buffer)
             /\ result.data = SubSeq(result.pre.m_buffer, result.pre.m_position + 1,
                                     result.pre.m_position + result.ret)

\* SetData replaced the buffer by one shorter than the cursor's position,
\* and the cursor is back at 0
C38_Witness ==
    /\ impl = "buffer" /\ result.op = "SetData"
    /\ result.pre.m_position > Len(bds.m_buffer)
    /\ bds.m_position = 0

----------------------------------------------------------------------------
(* Finality of EOF on a buffer source *)

\* a Read on buffer b would return EOF
ReadsEof(b) == BufferDataSource_Read(b, 1).ret = AVERROR_EOF

\* the completed call r moved the cursor or reset the buffer
Resets(r) ==
    \/ r.op \in {"Seek", "SetData", "Clear"}
    \/ r.op = "SetEOF" /\ r.arg[1] = FALSE

\* C39: EOF on a buffer source is final for the consumer: once a Read has
\* returned EOF, every later Read also returns EOF unless the cursor was
\* moved or the buffer reset by Seek, SetData, Clear or SetEOF(false); in
\* particular an AppendData after EOF was marked does not make a later Read
\* return bytes.
C39_EofIsFinal ==
    [][ (/\ impl \in {"buffer", "webrtc"}
         /\ result.op = "Read" /\ result.ret = AVERROR_EOF
         /\ ~Resets(result'))
        => ReadsEof(bds') ]_vars

\* the connection came back after a Disconnected had marked EOF and the
\* reader had reached the end; the track callback appended a unit, and a
\* Read now returns bytes
C39_Witness ==
    /\ impl = "webrtc" /\ webrtc.state = "Connected"
    /\ result.op = "AppendData"
    /\ result.pre.m_eof
    /\ result.pre.m_position >= Len(result.pre.m_buffer)
    /\ bds.m_eof
    /\ BufferDataSource_Read(bds, 1).ret > 0

============================================================================
